---- MODULE Spec2Model ----
(***************************************************************************)
(* Model of the ZCraft interactive REPL: the standalone FHEVMRepl session  *)
(* (packages/cli/src/repl/repl.ts), its command parser and encryption      *)
(* helper, and the argument-preparation loop of the Hardhat repl task.     *)
(*                                                                         *)
(* Two specifications share the operators below:                          *)
(*   SpecPrep  one run of argument preparation over every small function   *)
(*             signature and user argument list;                           *)
(*   Spec      a REPL session: input lines are delivered by readline, each *)
(*             line starts an async handler, handlers interleave at their  *)
(*             awaits.                                                     *)
(***************************************************************************)
EXTENDS Integers, Sequences, FiniteSets, TLC

VARIABLES
  \* one run of argument preparation (SpecPrep)
  pimpl,               \* "repl": FHEVMRepl.prepareArguments, "task": the repl task's loop
  pfunc,               \* the function's declared inputs
  pargs,               \* the parsed user arguments
  pjob,                \* the state of the preparation loop
  \* one application of a pure function (SpecParse, ...)
  pin,                 \* its input ("none" in the other specifications)
  pout,                \* its result ("none" before it is applied)
  \* the REPL session (Spec)
  proc,                \* "running", "exited" (process.exit(0)) or "crashed"
  isRunning,           \* FHEVMRepl.isRunning
  rlOpen,              \* FHEVMRepl.rl is not null
  currentSignerIndex,  \* config.currentSignerIndex
  history,             \* FHEVMRepl.history
  historyIndex,        \* FHEVMRepl.historyIndex
  handlers,            \* the 'line' handlers started so far, in submission order
  prompts,             \* number of prompts issued by rl.prompt()
  detached             \* displayWelcome() promises nobody awaits

pureVars == <<pin, pout>>
prepVars == <<pimpl, pfunc, pargs, pjob, pin, pout>>
sessVars == <<proc, isRunning, rlOpen, currentSignerIndex, history, historyIndex,
              handlers, prompts, detached>>
vars == <<pimpl, pfunc, pargs, pjob, pin, pout, proc, isRunning, rlOpen, currentSignerIndex,
          history, historyIndex, handlers, prompts, detached>>

(***************************************************************************)
(* Bounds of the model.                                                    *)
(***************************************************************************)
MaxParams == 3
MaxArgs == 3
MaxLines == 3
MaxBusy == 2
NumSigners == 2

(***************************************************************************)
(* Strings whose content the code inspects (startsWith, replace) are       *)
(* sequences of one-character strings.                                     *)
(***************************************************************************)
S_empty == << >>
S_external == <<"e","x","t","e","r","n","a","l">>
S_externalEuint == S_external \o <<"E","u","i","n","t">>
S_euint == <<"e","u","i","n","t">>
S_externalEbool == S_external \o <<"E","b","o","o","l">>
S_ebool == <<"e","b","o","o","l">>
S_externalEaddress == S_external \o <<"E","a","d","d","r","e","s","s">>
S_eaddress == <<"e","a","d","d","r","e","s","s">>
S_bytes == <<"b","y","t","e","s">>
S_bytes32 == S_bytes \o <<"3","2">>
S_uint256 == <<"u","i","n","t","2","5","6">>
S_externalEuint32 == S_externalEuint \o <<"3","2">>
S_euint32 == S_euint \o <<"3","2">>

\* String.prototype.startsWith
StartsWith(s, p) == Len(s) >= Len(p) /\ SubSeq(s, 1, Len(p)) = p

\* String.prototype.replace(p, ''): the first occurrence of p is removed.
ReplaceFirst(s, p) ==
  LET hits == {k \in 1..(Len(s) - Len(p) + 1) : SubSeq(s, k, k + Len(p) - 1) = p}
  IN IF hits = {} THEN s
     ELSE LET k == CHOOSE x \in hits : \A y \in hits : x <= y
          IN SubSeq(s, 1, k - 1) \o SubSeq(s, k + Len(p), Len(s))

(***************************************************************************)
(* JavaScript values that reach argument preparation.  v is the number     *)
(* carried (the literal typed, or the sequence number of the encryption    *)
(* that produced a handle or a proof).                                     *)
(***************************************************************************)
Num(n) == [t |-> "num", v |-> n]
Marker(n) == [t |-> "marker", v |-> n]
Undefined == [t |-> "undef", v |-> 0]
Handle(k) == [t |-> "handle", v |-> k]
Proof(k) == [t |-> "proof", v |-> k]

\* args[k] of a JavaScript array (0-based): undefined past the end.
ArgAt(args, k) == IF k + 1 <= Len(args) THEN args[k + 1] ELSE Undefined

\* parser: shouldEncrypt
shouldEncrypt(value) == value.t = "marker"

\* parser: unwrapEncrypted
unwrapEncrypted(value) == IF shouldEncrypt(value) THEN Num(value.v) ELSE value

(***************************************************************************)
(* EncryptionHelper.detectEncryptionType.  An empty encryptionType and     *)
(* fhevmType -1 stand for an absent field.                                 *)
(***************************************************************************)
S_uint == <<"u","i","n","t">>
S_bool == <<"b","o","o","l">>
S_address == <<"a","d","d","r","e","s","s">>

NoEncryption == [needsEncryption |-> FALSE, encryptionType |-> S_empty, fhevmType |-> -1]

BitsCase(bits, needs) ==
  IF bits = <<"8">> THEN [needsEncryption |-> needs, encryptionType |-> S_uint \o <<"8">>, fhevmType |-> 0]
  ELSE IF bits = <<"1","6">> THEN [needsEncryption |-> needs, encryptionType |-> S_uint \o <<"1","6">>, fhevmType |-> 1]
  ELSE IF bits = <<"3","2">> THEN [needsEncryption |-> needs, encryptionType |-> S_uint \o <<"3","2">>, fhevmType |-> 2]
  ELSE IF bits = <<"6","4">> THEN [needsEncryption |-> needs, encryptionType |-> S_uint \o <<"6","4">>, fhevmType |-> 3]
  ELSE IF bits = <<"1","2","8">> THEN [needsEncryption |-> needs, encryptionType |-> S_uint \o <<"1","2","8">>, fhevmType |-> 4]
  ELSE IF bits = <<"2","5","6">> THEN [needsEncryption |-> needs, encryptionType |-> S_uint \o <<"2","5","6">>, fhevmType |-> 5]
  ELSE NoEncryption

detectEncryptionType(paramType) ==
  LET ext == IF StartsWith(paramType, S_externalEuint)
             THEN BitsCase(ReplaceFirst(paramType, S_externalEuint), TRUE)
             ELSE NoEncryption
      int == IF StartsWith(paramType, S_euint)
             THEN BitsCase(ReplaceFirst(paramType, S_euint), FALSE)
             ELSE NoEncryption
  IN IF ext # NoEncryption THEN ext
     ELSE IF int # NoEncryption THEN int
     ELSE IF paramType = S_externalEbool
       THEN [needsEncryption |-> TRUE, encryptionType |-> S_bool, fhevmType |-> 6]
     ELSE IF paramType = S_ebool
       THEN [needsEncryption |-> FALSE, encryptionType |-> S_bool, fhevmType |-> 6]
     ELSE IF paramType = S_externalEaddress
       THEN [needsEncryption |-> TRUE, encryptionType |-> S_address, fhevmType |-> 7]
     ELSE IF paramType = S_eaddress
       THEN [needsEncryption |-> FALSE, encryptionType |-> S_address, fhevmType |-> 7]
     ELSE NoEncryption

\* repl task: getEncryptionType
getEncryptionType(paramType) ==
  IF StartsWith(paramType, S_externalEuint)
  THEN [needsEncryption |-> TRUE,
        encryptionType |-> S_uint \o ReplaceFirst(paramType, S_externalEuint)]
  ELSE [needsEncryption |-> FALSE, encryptionType |-> S_empty]

(***************************************************************************)
(* Declared parameters (ABI fragments).                                    *)
(***************************************************************************)
P_x == [name |-> "x", type |-> S_bytes32, internalType |-> S_externalEuint32]
P_inputProof == [name |-> "inputProof", type |-> S_bytes, internalType |-> S_bytes]
P_b == [name |-> "b", type |-> S_uint256, internalType |-> S_uint256]
P_data == [name |-> "data", type |-> S_bytes, internalType |-> S_bytes]
ParamKinds == {P_x, P_inputProof, P_b, P_data}

\* param.internalType || param.type
ParamTypeOf(param) == IF param.internalType # S_empty THEN param.internalType ELSE param.type

(***************************************************************************)
(* Argument preparation.  A job is one run of the preparation loop:        *)
(*   i         index of the declared parameter being handled (1-based)     *)
(*   argIndex  the user-argument cursor (0-based, as in the code)          *)
(*   prepared  the call arguments built so far                             *)
(*   pending   the repl task's pendingProof (Undefined when not set)       *)
(*   calls     the encryption-provider calls made so far, in order: one    *)
(*             record per createEncryptedInput/add*, with the value and    *)
(*             type handed over and the signer whose address scopes it     *)
(*   pc        "run" before the loop starts, "awaitAddr" while awaiting    *)
(*             signer.getAddress(), "awaitEnc" while awaiting              *)
(*             input.encrypt(), "done" when the loop returned, "failed"    *)
(*             when an awaited call rejected                               *)
(***************************************************************************)
NewJob ==
  [pc |-> "run", i |-> 1, argIndex |-> 0, prepared |-> << >>,
   pending |-> Undefined, calls |-> << >>]

\* FHEVMRepl.prepareArguments: the synchronous part of the loop, from
\* parameter job.i up to the next await or the return.
RECURSIVE prepareArguments(_, _, _)
prepareArguments(func, args, job) ==
  IF job.i > Len(func) THEN [job EXCEPT !.pc = "done"]
  ELSE
    LET param == func[job.i]
        paramType == ParamTypeOf(param)
        encryptionInfo == detectEncryptionType(paramType)
        value == ArgAt(args, job.argIndex)
    IN IF encryptionInfo.needsEncryption
       THEN LET needsEncryption == ~shouldEncrypt(value)
            IN IF needsEncryption
               THEN [job EXCEPT !.pc = "awaitAddr"]
               ELSE prepareArguments(func, args,
                      [job EXCEPT !.prepared = Append(@, value),
                                  !.argIndex = @ + 1, !.i = @ + 1])
       ELSE IF /\ paramType = S_bytes
               /\ job.i > 1
               /\ StartsWith(func[job.i - 1].type, S_external)
       THEN prepareArguments(func, args, [job EXCEPT !.i = @ + 1])
       ELSE prepareArguments(func, args,
              [job EXCEPT !.prepared = Append(@, value),
                          !.argIndex = @ + 1, !.i = @ + 1])

\* FHEVMRepl.prepareArguments after getAddress resolved: the call of
\* encryptionHelper.encrypt (createEncryptedInput, add*, then the await of
\* input.encrypt()).
prepareEncryptCall(func, args, job, signer) ==
  LET encryptionInfo == detectEncryptionType(ParamTypeOf(func[job.i]))
      value == unwrapEncrypted(ArgAt(args, job.argIndex))
  IN [job EXCEPT !.pc = "awaitEnc",
                 !.calls = Append(@, [val |-> value,
                                      type |-> encryptionInfo.encryptionType,
                                      user |-> signer])]

\* FHEVMRepl.prepareArguments after input.encrypt() resolved: handle and
\* proof are pushed, the cursor advances, the loop goes on.
prepareEncrypted(func, args, job) ==
  prepareArguments(func, args,
    [job EXCEPT !.prepared = @ \o <<Handle(Len(job.calls)), Proof(Len(job.calls))>>,
                !.argIndex = @ + 1, !.i = @ + 1])

\* repl task: the synchronous part of its preparation loop.
RECURSIVE taskPrepare(_, _, _)
taskPrepare(func, args, job) ==
  IF job.i > Len(func) THEN [job EXCEPT !.pc = "done", !.pending = Undefined]
  ELSE
    LET param == func[job.i]
        paramType == ParamTypeOf(param)
        encInfo == getEncryptionType(paramType)
    IN IF encInfo.needsEncryption
       THEN [job EXCEPT !.pc = "awaitAddr"]
       ELSE IF paramType = S_bytes /\ param.name = "inputProof"
       THEN IF job.pending # Undefined
            THEN taskPrepare(func, args,
                   [job EXCEPT !.prepared = Append(@, job.pending),
                               !.pending = Undefined, !.i = @ + 1])
            ELSE taskPrepare(func, args,
                   [job EXCEPT !.prepared = Append(@, ArgAt(args, job.argIndex)),
                               !.argIndex = @ + 1, !.i = @ + 1])
       ELSE taskPrepare(func, args,
              [job EXCEPT !.prepared = Append(@, ArgAt(args, job.argIndex)),
                          !.argIndex = @ + 1, !.i = @ + 1])

\* repl task after getAddress resolved: encryptValue is called.
taskEncryptCall(func, args, job, signer) ==
  LET encInfo == getEncryptionType(ParamTypeOf(func[job.i]))
  IN [job EXCEPT !.pc = "awaitEnc",
                 !.calls = Append(@, [val |-> ArgAt(args, job.argIndex),
                                      type |-> encInfo.encryptionType,
                                      user |-> signer])]

\* repl task after input.encrypt() resolved: the handle is pushed, the proof
\* is kept as pendingProof when the next parameter is bytes inputProof.
taskEncrypted(func, args, job) ==
  LET k == Len(job.calls)
      nextIsProof ==
        /\ job.i + 1 <= Len(func)
        /\ ParamTypeOf(func[job.i + 1]) = S_bytes
        /\ func[job.i + 1].name = "inputProof"
  IN taskPrepare(func, args,
       [job EXCEPT !.prepared = Append(@, Handle(k)),
                   !.pending = IF nextIsProof THEN Proof(k) ELSE @,
                   !.argIndex = @ + 1, !.i = @ + 1])

(***************************************************************************)
(* SpecPrep: one run of argument preparation.                              *)
(***************************************************************************)
RECURSIVE SeqsUpTo(_, _)
SeqsUpTo(S, n) ==
  IF n = 0 THEN {<< >>}
  ELSE LET shorter == SeqsUpTo(S, n - 1)
       IN shorter \cup {Append(q, x) : q \in {r \in shorter : Len(r) = n - 1}, x \in S}

\* User argument k is the literal k, typed plainly or wrapped in encrypt(...).
ArgLists ==
  UNION {{[k \in 1..n |-> IF k \in m THEN Marker(k) ELSE Num(k)] : m \in SUBSET (1..n)}
         : n \in 0..MaxArgs}

\* The state of the session when start() has returned.
SessInit ==
  /\ proc = "running"
  /\ isRunning = TRUE
  /\ rlOpen = TRUE
  /\ currentSignerIndex = 0
  /\ history = << >>
  /\ historyIndex = 1
  /\ handlers = << >>
  /\ prompts = 1
  /\ detached = 0

InitPrep ==
  /\ pimpl \in {"repl", "task"}
  /\ pfunc \in SeqsUpTo(ParamKinds, MaxParams)
  /\ pargs \in ArgLists
  /\ pjob = NewJob
  /\ pin = "none"
  /\ pout = "none"
  /\ SessInit

\* The loop starts (or, in a session, callFunction calls prepareArguments).
PrepStart ==
  /\ pjob.pc = "run"
  /\ pjob' = IF pimpl = "repl" THEN prepareArguments(pfunc, pargs, pjob)
                              ELSE taskPrepare(pfunc, pargs, pjob)
  /\ UNCHANGED <<pimpl, pfunc, pargs, pureVars, sessVars>>

\* signers[currentSignerIndex].getAddress() resolves.
PrepAddrResolved ==
  /\ pjob.pc = "awaitAddr"
  /\ pjob' = IF pimpl = "repl" THEN prepareEncryptCall(pfunc, pargs, pjob, currentSignerIndex)
                              ELSE taskEncryptCall(pfunc, pargs, pjob, currentSignerIndex)
  /\ UNCHANGED <<pimpl, pfunc, pargs, pureVars, sessVars>>

\* input.encrypt() resolves.
PrepEncResolved ==
  /\ pjob.pc = "awaitEnc"
  /\ pjob' = IF pimpl = "repl" THEN prepareEncrypted(pfunc, pargs, pjob)
                              ELSE taskEncrypted(pfunc, pargs, pjob)
  /\ UNCHANGED <<pimpl, pfunc, pargs, pureVars, sessVars>>

\* getAddress() or the encryption provider rejects: the loop throws.
PrepRejected ==
  /\ pjob.pc \in {"awaitAddr", "awaitEnc"}
  /\ pjob' = [pjob EXCEPT !.pc = "failed"]
  /\ UNCHANGED <<pimpl, pfunc, pargs, pureVars, sessVars>>

NextPrep == PrepStart \/ PrepAddrResolved \/ PrepEncResolved \/ PrepRejected

SpecPrep == InitPrep /\ [][NextPrep]_vars

(***************************************************************************)
(* Input lines.  A trimmed line is described by its grammatical shape:     *)
(*   "empty"                    the empty line                             *)
(*   "word"   name              a line without parentheses                 *)
(*   "paren"  name ( inner )    an identifier followed by a parenthesised  *)
(*                              text                                       *)
(* and the parenthesised text by its kind:                                 *)
(*   "empty"         nothing                                               *)
(*   "digits" n      an all-digits literal                                 *)
(*   "hex" n         a 0x literal (a handle)                               *)
(*   "word"          a token that is no literal (foo)                      *)
(*   "call" fn n     a nested fn(n), or fn() when n = -1                   *)
(*   "args" args     an argument list of two or more values                *)
(***************************************************************************)
Inner(k, fn, n, args) == [k |-> k, fn |-> fn, n |-> n, args |-> args]
InEmpty == Inner("empty", "", -1, << >>)
InDigits(n) == Inner("digits", "", n, << >>)
InHex(n) == Inner("hex", "", n, << >>)
InCall(fn, n) == Inner("call", fn, n, << >>)

Line(shape, name, inner) == [shape |-> shape, name |-> name, inner |-> inner]
EmptyLine == Line("empty", "", InEmpty)
Word(w) == Line("word", w, InEmpty)
Paren(name, inner) == Line("paren", name, inner)

\* parser: parseValue / parseArguments on the parenthesised text.
parseArguments(inner) ==
  IF inner.k = "empty" THEN << >>
  ELSE IF inner.k = "digits" THEN <<Num(inner.n)>>
  ELSE IF inner.k = "hex" THEN <<[t |-> "hex", v |-> inner.n]>>
  ELSE IF inner.k = "call"
    THEN IF inner.fn = "encrypt" /\ inner.n >= 0
         THEN <<Marker(inner.n)>>
         ELSE <<[t |-> "str", v |-> inner.n]>>
  ELSE IF inner.k = "args" THEN inner.args
  ELSE <<[t |-> "str", v |-> 0]>>

\* parser: parseCommand.  type "error" stands for a thrown Error; index -1
\* for an undefined index.
Parsed(type, functionName, args, expression, index, privateKey, clear) ==
  [type |-> type, functionName |-> functionName, args |-> args,
   expression |-> expression, index |-> index, privateKey |-> privateKey,
   clear |-> clear]
Simple(type) == Parsed(type, "", << >>, InEmpty, -1, FALSE, FALSE)

parseCommand(line) ==
  IF line.shape = "empty" THEN Simple("error")
  ELSE IF line.shape = "word"
    THEN IF line.name = "help" THEN Simple("help")
         ELSE IF line.name \in {"exit", "quit"} THEN Simple("exit")
         ELSE IF line.name \in {"clear", "cls"} THEN Simple("clear")
         ELSE IF line.name \in {"functions", "signers", "info", "fhe", "history",
                                "network", "mode"}
           THEN Simple(line.name)
         ELSE IF line.name = "history clear"
           THEN Parsed("history", "", << >>, InEmpty, -1, FALSE, TRUE)
         ELSE Simple("error")
  ELSE IF line.name = "signer" /\ line.inner.k # "empty"
    THEN IF line.inner.k = "digits"
         THEN Parsed("signer", "", << >>, InEmpty, line.inner.n, FALSE, FALSE)
         ELSE Parsed("signer", "", << >>, InEmpty, -1, TRUE, FALSE)
  ELSE IF line.name = "decrypt" /\ line.inner.k # "empty"
    THEN Parsed("decrypt", "", << >>, line.inner, -1, FALSE, FALSE)
  ELSE IF line.name = "encrypt" /\ line.inner.k # "empty"
    THEN Parsed("encrypt", "", << >>, line.inner, -1, FALSE, FALSE)
  ELSE IF line.name = "replay" /\ line.inner.k = "digits"
    THEN Parsed("replay", "", << >>, InEmpty, line.inner.n, FALSE, FALSE)
  ELSE IF line.name = "estimate" /\ line.inner.k # "empty"
    THEN IF line.inner.k = "call" THEN Simple("estimate") ELSE Simple("error")
  ELSE Parsed("function_call", line.name, parseArguments(line.inner), InEmpty,
              -1, FALSE, FALSE)

(***************************************************************************)
(* The parser on the text of a line (a sequence of characters).            *)
(***************************************************************************)
Digits == {"0", "1", "2", "3", "4", "5", "6", "7", "8", "9"}
Letters ==
  {"a", "b", "c", "d", "e", "f", "g", "h", "i", "j", "k", "l", "m", "n", "o", "p",
   "q", "r", "s", "t", "u", "v", "w", "x", "y", "z"}
HexDigits == Digits \cup {"a", "b", "c", "d", "e", "f", "A", "B", "C", "D", "E", "F"}
WordChars == Digits \cup Letters \cup {"_"}
Quotes == {"\"", "'"}
T_encrypt == <<"e","n","c","r","y","p","t">>
T_keywords ==
  {<<"t","r","u","e">>, <<"f","a","l","s","e">>, <<"n","u","l","l">>,
   <<"u","n","d","e","f","i","n","e","d">>}

\* String.prototype.trim
RECURSIVE TrimStart(_)
TrimStart(s) == IF s # << >> /\ Head(s) = " " THEN TrimStart(Tail(s)) ELSE s
RECURSIVE TrimEnd(_)
TrimEnd(s) ==
  IF s # << >> /\ s[Len(s)] = " " THEN TrimEnd(SubSeq(s, 1, Len(s) - 1)) ELSE s
Trim(s) == TrimEnd(TrimStart(s))

AllIn(s, S) == \A k \in DOMAIN s : s[k] \in S

\* /^-?\d+(\.\d+)?$/
IsNumberText(value) ==
  LET body == IF value # << >> /\ Head(value) = "-" THEN Tail(value) ELSE value
      dots == {k \in DOMAIN body : body[k] = "."}
  IN \/ body # << >> /\ AllIn(body, Digits)
     \/ \E k \in dots :
          /\ dots = {k}
          /\ 1 < k /\ k < Len(body)
          /\ AllIn(SubSeq(body, 1, k - 1), Digits)
          /\ AllIn(SubSeq(body, k + 1, Len(body)), Digits)

\* /^0x[0-9a-fA-F]+$/
IsHexText(value) ==
  Len(value) > 2 /\ SubSeq(value, 1, 2) = <<"0", "x">>
    /\ AllIn(SubSeq(value, 3, Len(value)), HexDigits)

\* /^encrypt\s*\(\s*(.+?)\s*\)$/: whether it matches, and the captured text.
EncryptCapture(value) ==
  IF ~StartsWith(value, T_encrypt) THEN [matched |-> FALSE, text |-> << >>]
  ELSE LET rest == TrimStart(SubSeq(value, Len(T_encrypt) + 1, Len(value)))
       IN IF Len(rest) >= 3 /\ Head(rest) = "(" /\ rest[Len(rest)] = ")"
          THEN [matched |-> TRUE, text |-> SubSeq(rest, 2, Len(rest) - 1)]
          ELSE [matched |-> FALSE, text |-> << >>]

\* parseValue: a value is [t |-> its kind, v |-> its text or inner value].
RECURSIVE parseValue(_)
parseValue(text) ==
  LET value == Trim(text)
      captured == EncryptCapture(value)
  IN IF captured.matched THEN [t |-> "marker", v |-> parseValue(captured.text)]
     ELSE IF IsNumberText(value) THEN [t |-> "num", v |-> value]
     ELSE IF IsHexText(value) THEN [t |-> "hex", v |-> value]
     ELSE IF Len(value) >= 2 /\ Head(value) \in Quotes /\ value[Len(value)] \in Quotes
       THEN [t |-> "str", v |-> SubSeq(value, 2, Len(value) - 1)]
     ELSE IF value \in T_keywords THEN [t |-> "keyword", v |-> value]
     ELSE [t |-> "str", v |-> value]

\* parseArguments, the loop over the characters of argsStr from position i.
NewScan ==
  [args |-> << >>, current |-> << >>, depth |-> 0, inString |-> FALSE,
   stringChar |-> ""]

\* The quote and depth tracking of one character.
Track(argsStr, i, st) ==
  LET char == argsStr[i]
      prevChar == IF i > 1 THEN argsStr[i - 1] ELSE ""
      q == IF char \in Quotes /\ prevChar # "\\"
           THEN IF ~st.inString
                THEN [st EXCEPT !.inString = TRUE, !.stringChar = char]
                ELSE IF char = st.stringChar
                THEN [st EXCEPT !.inString = FALSE, !.stringChar = ""]
                ELSE st
           ELSE st
  IN IF q.inString THEN q
     ELSE IF char = "(" THEN [q EXCEPT !.depth = @ + 1]
     ELSE IF char = ")" THEN [q EXCEPT !.depth = @ - 1]
     ELSE q

parseArgumentsSplitsAnyComma(st) == ~st.inString

\* The test that makes a comma split the list.
parseArgumentsSplits(st) == st.depth = 0 /\ ~st.inString

RECURSIVE parseArgumentsLoop(_, _, _)
parseArgumentsLoop(argsStr, i, st) ==
  IF i > Len(argsStr) THEN st
  ELSE LET t == Track(argsStr, i, st)
       IN parseArgumentsLoop(argsStr, i + 1,
            IF argsStr[i] = "," /\ parseArgumentsSplits(t)
            THEN [t EXCEPT !.args = Append(@, parseValue(Trim(t.current))),
                           !.current = << >>]
            ELSE [t EXCEPT !.current = Append(@, argsStr[i])])

\* parseArguments on the text between the parentheses.
parseArgumentsText(argsStr) ==
  IF Trim(argsStr) = << >> THEN << >>
  ELSE LET st == parseArgumentsLoop(argsStr, 1, NewScan)
       IN IF Trim(st.current) # << >>
          THEN Append(st.args, parseValue(Trim(st.current)))
          ELSE st.args

\* parseCommand's function-call rule, /^(\w+)\s*\(\s*(.*?)\s*\)$/, on a
\* trimmed line: the parsed command, or type "error" when it does not match.
parseFunctionCall(trimmed) ==
  LET opens == {k \in DOMAIN trimmed : trimmed[k] = "("}
  IN IF opens = {} \/ trimmed[Len(trimmed)] # ")" THEN [type |-> "error"]
     ELSE LET k == CHOOSE x \in opens : \A y \in opens : x <= y
              name == TrimEnd(SubSeq(trimmed, 1, k - 1))
          IN IF name = << >> \/ ~AllIn(name, WordChars) THEN [type |-> "error"]
             ELSE [type |-> "function_call", functionName |-> name,
                   args |-> parseArgumentsText(Trim(SubSeq(trimmed, k + 1,
                                                           Len(trimmed) - 1)))]

(***************************************************************************)
(* SpecParse: parseCommand applied to a function-call line f(<text>).      *)
(***************************************************************************)
MaxText == 4

TextChars == {"1", "a", ",", "(", ")", "\"", "'", "\\", " "}

\* g(1,2), "a,b", 3
ExampleArgs ==
  <<"g", "(", "1", ",", "2", ")", ",", " ", "\"", "a", ",", "b", "\"", ",", " ", "3">>

ArgTexts == SeqsUpTo(TextChars, MaxText) \cup {ExampleArgs}

\* The line f(<text>).
CallText(argsStr) == <<"f", "(">> \o argsStr \o <<")">>

\* No result yet.
NotApplied == [type |-> "none"]

InitParse ==
  /\ pin \in {CallText(a) : a \in ArgTexts}
  /\ pout = NotApplied
  /\ pimpl = "repl"
  /\ pfunc = << >>
  /\ pargs = << >>
  /\ pjob = NewJob
  /\ SessInit

ParseLine ==
  /\ pout = NotApplied
  /\ pout' = parseFunctionCall(pin)
  /\ UNCHANGED <<pin, pimpl, pfunc, pargs, pjob, sessVars>>

NextParse == ParseLine

SpecParse == InitParse /\ [][NextParse]_vars

(***************************************************************************)
(* The contract the session talks to: the FHE counter.                     *)
(***************************************************************************)
Fragment(inputs, mut) == [inputs |-> inputs, stateMutability |-> mut]
NoFragment == Fragment(<< >>, "none")

FunctionNames == {"increment", "getCount"}

Interface(name) ==
  IF name = "increment" THEN Fragment(<<P_x, P_inputProof>>, "nonpayable")
  ELSE Fragment(<< >>, "view")

getFunction_AnyName(name) == Interface(name)

\* contract.interface.getFunction(name): null for a name not in the ABI.
getFunction(name) == IF name \in FunctionNames THEN Interface(name) ELSE NoFragment

(***************************************************************************)
(* The REPL session (FHEVMRepl).                                           *)
(*                                                                         *)
(* readline emits 'line' for every input line as it arrives; the listener  *)
(* is an async function, so each line starts a handler that runs up to its *)
(* first await and is resumed when the awaited promise settles.  Nothing   *)
(* holds a line back while an earlier handler is suspended.                *)
(*                                                                         *)
(* A handler:                                                              *)
(*   line   the line delivered           cmd   the command being executed  *)
(*   pc     where the handler is suspended ("done": it has settled and the *)
(*          prompt was re-issued)                                          *)
(*   res    "ok" or "error" (displayError was called), stage: where it     *)
(*          failed                                                         *)
(*   job    the preparation loop          sidx  the signer index read at   *)
(*          the start of callFunction                                      *)
(*   fx     the side effects the handler has performed so far              *)
(***************************************************************************)
Awaiting == {"awaitAddr", "awaitEnc", "awaitCall", "awaitTx", "awaitReceipt",
             "awaitDecCall", "awaitDec", "awaitInfo"}

NewHandler(line, sig) ==
  [line |-> line, cmd |-> line, pc |-> "start", res |-> "", stage |-> "",
   job |-> NewJob, sidx |-> sig, fx |-> {}]

\* FHEVMRepl.handleInput's catch: displayError, then the handler settles.
displayError(hd, stage) ==
  [hd EXCEPT !.pc = "done", !.res = "error", !.stage = stage, !.job = NewJob,
             !.sidx = 0]

\* The command returned normally: the handler settles.
Finish(hd) == [hd EXCEPT !.pc = "done", !.res = "ok", !.job = NewJob, !.sidx = 0]

\* What the first segment of a handler did to the session.
Update(hd, sig, hist, det, exit) ==
  [hd |-> hd, sig |-> sig, hist |-> hist, det |-> det, exit |-> exit]

\* FHEVMRepl.addToHistory
addToHistory_NoIncrement(hist, idx, entry) ==
  [history |-> Append(hist, [entry EXCEPT !.index = idx]), historyIndex |-> idx]

addToHistory(hist, idx, entry) ==
  [history |-> Append(hist, [entry EXCEPT !.index = idx]), historyIndex |-> idx + 1]

clearHistory_ResetIndex(hist, idx) == [history |-> << >>, historyIndex |-> 1]

\* FHEVMRepl.displayHistory with options.clear
clearHistory(hist, idx) == [history |-> << >>, historyIndex |-> idx]

Entry(command, h, kind, status) ==
  [index |-> 0, command |-> command, h |-> h, kind |-> kind, status |-> status]

\* FHEVMRepl.callFunction once prepareArguments has returned: the contract
\* method is invoked, as a read-only call or as a transaction of the signer
\* selected when callFunction started.
invoke(hd, func) ==
  IF func.stateMutability \in {"view", "pure"}
  THEN [hd EXCEPT !.pc = "awaitCall", !.fx = @ \cup {"call"}]
  ELSE [hd EXCEPT !.pc = "awaitTx", !.fx = @ \cup {"send"}]

\* FHEVMRepl.callFunction up to its first await.
callFunction(parsed, hd, sig) ==
  LET func == getFunction(parsed.functionName)
  IN IF parsed.functionName = "" \/ func = NoFragment
     THEN displayError(hd, "lookup")
     ELSE LET j == prepareArguments(func.inputs, parsed.args, NewJob)
          IN IF j.pc = "done"
             THEN invoke([hd EXCEPT !.sidx = sig, !.job = j], func)
             ELSE [hd EXCEPT !.sidx = sig, !.job = j, !.pc = "awaitAddr"]

\* FHEVMRepl.handleDecrypt up to its first await.  The nested call goes to
\* the contract as it is (no signer connected, arguments not prepared); a
\* method that is not view or pure is refused by the read-only runner.
handleDecrypt(parsed, hd) ==
  LET e == parsed.expression
  IN IF e.k = "call"
     THEN LET funcParsed ==
                parseCommand(Paren(e.fn, IF e.n >= 0 THEN InDigits(e.n) ELSE InEmpty))
          IN IF funcParsed.type # "function_call" THEN displayError(hd, "decrypt")
             ELSE IF funcParsed.functionName \notin FunctionNames
               THEN displayError(hd, "decrypt")
             ELSE IF Interface(funcParsed.functionName).stateMutability \notin {"view", "pure"}
               THEN displayError(hd, "decrypt")
             ELSE [hd EXCEPT !.pc = "awaitDecCall", !.fx = @ \cup {"call"}]
     ELSE [hd EXCEPT !.pc = "awaitDec", !.fx = @ \cup {"decrypt"}]

switchSigner_NoRangeCheck(parsed, hd, sig) ==
  IF parsed.index # -1
  THEN Update([hd EXCEPT !.pc = "awaitInfo", !.fx = @ \cup {"signer"}],
              parsed.index, "keep", 0, FALSE)
  ELSE Update(displayError(hd, "signer"), sig, "keep", 0, FALSE)

\* FHEVMRepl.switchSigner up to its await.
switchSigner(parsed, hd, sig) ==
  IF parsed.index # -1
  THEN IF parsed.index < 0 \/ parsed.index >= NumSigners
       THEN Update(displayError(hd, "signer"), sig, "keep", 0, FALSE)
       ELSE Update([hd EXCEPT !.pc = "awaitInfo", !.fx = @ \cup {"signer"}],
                   parsed.index, "keep", 0, FALSE)
  ELSE IF parsed.privateKey
  THEN Update(displayError(hd, "signer"), sig, "keep", 0, FALSE)
  ELSE Update(Finish(hd), sig, "keep", 0, FALSE)

\* FHEVMRepl.executeCommand, every command but replay.
dispatch(parsed, hd, sig) ==
  IF parsed.type = "function_call"
    THEN Update(callFunction(parsed, hd, sig), sig, "keep", 0, FALSE)
  ELSE IF parsed.type = "decrypt"
    THEN Update(handleDecrypt(parsed, hd), sig, "keep", 0, FALSE)
  ELSE IF parsed.type = "signer" THEN switchSigner(parsed, hd, sig)
  ELSE IF parsed.type = "signers"
    THEN Update([hd EXCEPT !.pc = "awaitInfo"], sig, "keep", 0, FALSE)
  ELSE IF parsed.type \in {"functions", "info", "fhe", "network", "mode", "help"}
    THEN Update(Finish(hd), sig, "keep", 0, FALSE)
  ELSE IF parsed.type = "history"
    THEN IF parsed.clear
         THEN Update(Finish([hd EXCEPT !.fx = @ \cup {"clearHistory"}]), sig, "clear", 0, FALSE)
         ELSE Update(Finish(hd), sig, "keep", 0, FALSE)
  ELSE IF parsed.type = "clear"
    THEN Update(Finish(hd), sig, "keep", 1, FALSE)
  ELSE IF parsed.type = "exit"
    THEN Update(Finish(hd), sig, "keep", 0, TRUE)
  ELSE Update(displayError(hd, "dispatch"), sig, "keep", 0, FALSE)

findEntry_AnyIndex(hist, index) == DOMAIN hist

\* replayTransaction: history.find((e) => e.index === parsed.index), as the
\* positions that match
findEntry(hist, index) == {k \in DOMAIN hist : hist[k].index = index}

\* FHEVMRepl.executeCommand with replayTransaction: the entry's command text
\* goes through handleInput, and so through executeCommand, again.
RECURSIVE executeCommand(_, _, _, _)
executeCommand(parsed, hd, sig, hist) ==
  IF parsed.type = "replay"
  THEN LET found == findEntry(hist, parsed.index)
       IN IF found = {}
          THEN Update(displayError(hd, "replay"), sig, "keep", 0, FALSE)
          ELSE LET entry == hist[CHOOSE k \in found : \A m \in found : k <= m]
                   again == parseCommand(entry.command)
               IN IF again.type = "error"
                  THEN Update(displayError(hd, "parse"), sig, "keep", 0, FALSE)
                  ELSE executeCommand(again, [hd EXCEPT !.cmd = entry.command], sig, hist)
  ELSE dispatch(parsed, hd, sig)

\* FHEVMRepl.handleInput up to the handler's first await.
handleInput(hd, sig, hist) ==
  IF hd.line.shape = "empty"
  THEN Update([hd EXCEPT !.pc = "done", !.sidx = 0], sig, "keep", 0, FALSE)
  ELSE LET parsed == parseCommand(hd.line)
       IN IF parsed.type = "error"
          THEN Update(displayError(hd, "parse"), sig, "keep", 0, FALSE)
          ELSE executeCommand(parsed, hd, sig, hist)

\* The function and the arguments of the call a handler is executing.
FuncOf(hd) == getFunction(parseCommand(hd.cmd).functionName)
ArgsOf(hd) == parseCommand(hd.cmd).args

(***************************************************************************)
(* Spec: the session.                                                      *)
(***************************************************************************)
Lines ==
  {Paren("increment", InDigits(5)), Paren("getCount", InEmpty), Paren("nope", InEmpty),
   Word("???"), Paren("signer", InDigits(1)),
   Paren("decrypt", InCall("getCount", -1)), Word("clear"), Word("exit")}

Init ==
  /\ SessInit
  /\ pimpl = "repl"
  /\ pfunc = << >>
  /\ pargs = << >>
  /\ pjob = NewJob
  /\ pin = "none"
  /\ pout = "none"

\* The process ends (process.exit, or an uncaught error): the session's
\* state, which lives in memory only, is gone.  proc keeps why it ended.
ProcessEnds(why) ==
  /\ proc' = why
  /\ isRunning' = FALSE
  /\ rlOpen' = FALSE
  /\ currentSignerIndex' = 0
  /\ history' = << >>
  /\ historyIndex' = 1
  /\ handlers' = << >>
  /\ prompts' = 0
  /\ detached' = 0
  /\ UNCHANGED prepVars

\* The prompt is re-issued when a handler settles (rl.prompt() after
\* handleInput returned).
Prompted(hd) == IF hd.pc = "done" THEN prompts + 1 ELSE prompts

\* A handler resumed after an await: its record and the history change.
Resume(h, hd, hi) ==
  /\ handlers' = [handlers EXCEPT ![h] = hd]
  /\ history' = hi.history
  /\ historyIndex' = hi.historyIndex
  /\ prompts' = Prompted(hd)
  /\ UNCHANGED <<proc, isRunning, rlOpen, currentSignerIndex, detached, prepVars>>

SameHistory == [history |-> history, historyIndex |-> historyIndex]

\* rl.on('line'): a line arrives and its handler runs up to its first await.
LineEvent(line) ==
  /\ proc = "running"
  /\ Len(handlers) < MaxLines
  /\ Cardinality({g \in DOMAIN handlers : handlers[g].pc # "done"}) < MaxBusy
  /\ LET u == handleInput(NewHandler(line, currentSignerIndex),
                          currentSignerIndex, history)
     IN IF u.exit
        THEN ProcessEnds("exited")
        ELSE /\ handlers' = Append(handlers, u.hd)
             /\ currentSignerIndex' = u.sig
             /\ history' = IF u.hist = "clear"
                            THEN clearHistory(history, historyIndex).history
                            ELSE history
             /\ historyIndex' = IF u.hist = "clear"
                                 THEN clearHistory(history, historyIndex).historyIndex
                                 ELSE historyIndex
             /\ detached' = detached + u.det
             /\ prompts' = Prompted(u.hd)
             /\ UNCHANGED <<proc, isRunning, rlOpen, prepVars>>

\* signers[currentSignerIndex].getAddress() resolves inside prepareArguments.
AddrResolved(h) ==
  /\ proc = "running"
  /\ handlers[h].pc = "awaitAddr"
  /\ LET hd == handlers[h]
         j == prepareEncryptCall(FuncOf(hd).inputs, ArgsOf(hd), hd.job, hd.sidx)
     IN Resume(h, [hd EXCEPT !.job = j, !.pc = "awaitEnc", !.fx = @ \cup {"encrypt"}],
               SameHistory)

\* input.encrypt() resolves inside prepareArguments: the loop goes on to
\* its next await or returns, and callFunction then invokes the method.
EncResolved(h) ==
  /\ proc = "running"
  /\ handlers[h].pc = "awaitEnc"
  /\ LET hd == handlers[h]
         j == prepareEncrypted(FuncOf(hd).inputs, ArgsOf(hd), hd.job)
     IN Resume(h, IF j.pc = "done"
                  THEN invoke([hd EXCEPT !.job = j], FuncOf(hd))
                  ELSE [hd EXCEPT !.job = j, !.pc = "awaitAddr"],
               SameHistory)

\* The read-only call resolves: the entry is recorded.
CallResolved(h) ==
  /\ proc = "running"
  /\ handlers[h].pc = "awaitCall"
  /\ LET hd == handlers[h]
     IN Resume(h, Finish([hd EXCEPT !.fx = @ \cup {"history"}]),
               addToHistory(history, historyIndex, Entry(hd.cmd, h, "view", "")))

\* The transaction is submitted: tx.wait() is awaited.
TxResolved(h) ==
  /\ proc = "running"
  /\ handlers[h].pc = "awaitTx"
  /\ Resume(h, [handlers[h] EXCEPT !.pc = "awaitReceipt"], SameHistory)

\* tx.wait() resolves with a receipt: the entry is recorded with its status.
ReceiptResolved(h, status) ==
  /\ proc = "running"
  /\ handlers[h].pc = "awaitReceipt"
  /\ LET hd == handlers[h]
     IN Resume(h, Finish([hd EXCEPT !.fx = @ \cup {"history"}]),
               addToHistory(history, historyIndex,
                            Entry(hd.cmd, h, "tx", IF status = 1 THEN "Success" ELSE "Failed")))

\* decrypt(f()): the nested call resolves, the decryption is requested.
DecCallResolved(h) ==
  /\ proc = "running"
  /\ handlers[h].pc = "awaitDecCall"
  /\ Resume(h, [handlers[h] EXCEPT !.pc = "awaitDec", !.fx = @ \cup {"decrypt"}],
            SameHistory)

\* The decryption resolves: handleDecrypt records the entry.
DecResolved(h) ==
  /\ proc = "running"
  /\ handlers[h].pc = "awaitDec"
  /\ LET hd == handlers[h]
     IN Resume(h, Finish([hd EXCEPT !.fx = @ \cup {"history"}]),
               addToHistory(history, historyIndex, Entry(hd.cmd, h, "decrypt", "")))

\* getAddress() resolves in switchSigner or listSigners.
InfoResolved(h) ==
  /\ proc = "running"
  /\ handlers[h].pc = "awaitInfo"
  /\ Resume(h, Finish(handlers[h]), SameHistory)

StageOf(pc) ==
  IF pc \in {"awaitAddr", "awaitEnc"} THEN "prepare"
  ELSE IF pc = "awaitCall" THEN "call"
  ELSE IF pc \in {"awaitTx", "awaitReceipt"} THEN "transaction"
  ELSE IF pc \in {"awaitDecCall", "awaitDec"} THEN "decrypt"
  ELSE "display"

\* An awaited promise rejects: the error reaches handleInput's catch.
Rejected(h) ==
  /\ proc = "running"
  /\ handlers[h].pc \in Awaiting
  /\ Resume(h, displayError(handlers[h], StageOf(handlers[h].pc)), SameHistory)

\* The displayWelcome() started by 'clear' and not awaited prints the banner.
WelcomeResolved ==
  /\ proc = "running"
  /\ detached > 0
  /\ detached' = detached - 1
  /\ UNCHANGED <<proc, isRunning, rlOpen, currentSignerIndex, history, historyIndex,
                 handlers, prompts, prepVars>>

\* Its getAddress() rejects: nothing catches the rejection.  Node ends the
\* process on an unhandled rejection (the default since Node 15) or, with
\* --unhandled-rejections=warn, only prints a warning.
WelcomeRejected ==
  /\ proc = "running"
  /\ detached > 0
  /\ \/ ProcessEnds("crashed")
     \/ /\ detached' = detached - 1
        /\ UNCHANGED <<proc, isRunning, rlOpen, currentSignerIndex, history,
                       historyIndex, handlers, prompts, prepVars>>

\* rl.on('SIGINT'): exit().
Sigint ==
  /\ proc = "running"
  /\ ProcessEnds("interrupted")

Next ==
  \/ \E line \in Lines : LineEvent(line)
  \/ \E h \in DOMAIN handlers : AddrResolved(h)
  \/ \E h \in DOMAIN handlers : EncResolved(h)
  \/ \E h \in DOMAIN handlers : CallResolved(h)
  \/ \E h \in DOMAIN handlers : TxResolved(h)
  \/ \E h \in DOMAIN handlers, status \in {0, 1} : ReceiptResolved(h, status)
  \/ \E h \in DOMAIN handlers : DecCallResolved(h)
  \/ \E h \in DOMAIN handlers : DecResolved(h)
  \/ \E h \in DOMAIN handlers : InfoResolved(h)
  \/ \E h \in DOMAIN handlers : Rejected(h)
  \/ WelcomeResolved
  \/ WelcomeRejected
  \/ Sigint

Spec == Init /\ [][Next]_vars

\* The user types a line only at the prompt, when every earlier line has
\* been handled: the lines are processed one after another.
LineAtPrompt(line) ==
  /\ \A g \in DOMAIN handlers : handlers[g].pc = "done"
  /\ LineEvent(line)

NextSerial ==
  \/ \E line \in Lines : LineAtPrompt(line)
  \/ \E h \in DOMAIN handlers : AddrResolved(h)
  \/ \E h \in DOMAIN handlers : EncResolved(h)
  \/ \E h \in DOMAIN handlers : CallResolved(h)
  \/ \E h \in DOMAIN handlers : TxResolved(h)
  \/ \E h \in DOMAIN handlers, status \in {0, 1} : ReceiptResolved(h, status)
  \/ \E h \in DOMAIN handlers : DecCallResolved(h)
  \/ \E h \in DOMAIN handlers : DecResolved(h)
  \/ \E h \in DOMAIN handlers : InfoResolved(h)
  \/ \E h \in DOMAIN handlers : Rejected(h)
  \/ WelcomeResolved
  \/ WelcomeRejected
  \/ Sigint

SpecSerial == Init /\ [][NextSerial]_vars

(***************************************************************************)
(* SpecAdvertised: the session with the commands displayHelp lists, typed  *)
(* at the prompt.                                                          *)
(***************************************************************************)
LinesAdvertised ==
  {Paren("getCount", InEmpty), Paren("encrypt", InDigits(5)),
   Paren("decrypt", InHex(1)), Paren("signer", InDigits(1)), Word("signers"),
   Word("functions"), Word("info"), Word("fhe"), Word("history"),
   Word("history clear"), Paren("replay", InDigits(1)), Word("clear"),
   Word("help"), Word("exit")}

NextAdvertised ==
  \/ \E line \in LinesAdvertised : LineAtPrompt(line)
  \/ \E h \in DOMAIN handlers : CallResolved(h)
  \/ \E h \in DOMAIN handlers : DecResolved(h)
  \/ \E h \in DOMAIN handlers : InfoResolved(h)
  \/ \E h \in DOMAIN handlers : Rejected(h)
  \/ WelcomeResolved
  \/ WelcomeRejected
  \/ Sigint

SpecAdvertised == Init /\ [][NextAdvertised]_vars

(***************************************************************************)
(* SpecHistory: the session with the history commands.                     *)
(***************************************************************************)
LinesHistory ==
  {Paren("increment", InDigits(5)), Paren("getCount", InEmpty),
   Word("history clear"), Paren("replay", InDigits(1)), Paren("replay", InDigits(2))}

NextHistory ==
  \/ \E line \in LinesHistory : LineEvent(line)
  \/ \E h \in DOMAIN handlers : AddrResolved(h)
  \/ \E h \in DOMAIN handlers : EncResolved(h)
  \/ \E h \in DOMAIN handlers : CallResolved(h)
  \/ \E h \in DOMAIN handlers : TxResolved(h)
  \/ \E h \in DOMAIN handlers, status \in {0, 1} : ReceiptResolved(h, status)
  \/ \E h \in DOMAIN handlers : Rejected(h)

SpecHistory == Init /\ [][NextHistory]_vars

(***************************************************************************)
(* SpecReplay: the history commands and a signer switch, typed at the      *)
(* prompt.                                                                 *)
(***************************************************************************)
LinesReplay == LinesHistory \cup {Paren("signer", InDigits(1))}

NextReplay ==
  \/ \E line \in LinesReplay : LineAtPrompt(line)
  \/ \E h \in DOMAIN handlers : AddrResolved(h)
  \/ \E h \in DOMAIN handlers : EncResolved(h)
  \/ \E h \in DOMAIN handlers : CallResolved(h)
  \/ \E h \in DOMAIN handlers : TxResolved(h)
  \/ \E h \in DOMAIN handlers, status \in {0, 1} : ReceiptResolved(h, status)
  \/ \E h \in DOMAIN handlers : InfoResolved(h)
  \/ \E h \in DOMAIN handlers : Rejected(h)

SpecReplay == Init /\ [][NextReplay]_vars

(***************************************************************************)
(* SpecCommands: the session with the signer and decrypt commands.         *)
(***************************************************************************)
LinesCommands ==
  {Paren("signer", InDigits(1)), Paren("signer", InDigits(NumSigners)),
   Paren("signer", InHex(1)), Paren("decrypt", InHex(1)),
   Paren("decrypt", InCall("signer", 1)), Paren("getCount", InEmpty)}

NextCommands ==
  \/ \E line \in LinesCommands : LineEvent(line)
  \/ \E h \in DOMAIN handlers : CallResolved(h)
  \/ \E h \in DOMAIN handlers : DecResolved(h)
  \/ \E h \in DOMAIN handlers : InfoResolved(h)
  \/ \E h \in DOMAIN handlers : Rejected(h)
  \/ Sigint

SpecCommands == Init /\ [][NextCommands]_vars

(***************************************************************************)
(* SpecDecrypt: the decrypt command in the two FHEVMRepl classes, the one  *)
(* that talks to the contract itself (pimpl = "repl") and the one that     *)
(* spawns a hardhat task per command (pimpl = "spawn").                    *)
(***************************************************************************)
\* FHEVMRepl.handleDecrypt of the task-spawning class up to its await: the
\* function name of the nested call selects the task; a bare handle is
\* refused.
spawnHandleDecrypt(parsed, hd) ==
  LET e == parsed.expression
  IN IF e.k = "call"
     THEN LET funcParsed ==
                parseCommand(Paren(e.fn, IF e.n >= 0 THEN InDigits(e.n) ELSE InEmpty))
          IN IF funcParsed.type # "function_call" THEN displayError(hd, "decrypt")
             ELSE [hd EXCEPT !.pc = "awaitChild", !.fx = @ \cup {"spawn"}]
     ELSE displayError(hd, "decrypt")

LinesDecrypt ==
  {Paren("decrypt", InHex(1)), Paren("decrypt", InHex(2)),
   Paren("decrypt", InCall("getCount", -1)), Paren("decrypt", InCall("signer", 1)),
   Paren("decrypt", InCall("nope", -1))}

InitDecrypt ==
  /\ SessInit
  /\ pimpl \in {"repl", "spawn"}
  /\ pfunc = << >>
  /\ pargs = << >>
  /\ pjob = NewJob
  /\ pin = "none"
  /\ pout = "none"

\* rl.on('line') with a decrypt command, up to the handler's first await.
DecryptLine(line) ==
  /\ proc = "running"
  /\ Len(handlers) < MaxLines
  /\ LET new == NewHandler(line, currentSignerIndex)
         hd == IF pimpl = "spawn"
               THEN spawnHandleDecrypt(parseCommand(line), new)
               ELSE handleInput(new, currentSignerIndex, history).hd
     IN /\ handlers' = Append(handlers, hd)
        /\ prompts' = Prompted(hd)
        /\ UNCHANGED <<proc, isRunning, rlOpen, currentSignerIndex, history,
                       historyIndex, detached, prepVars>>

\* The spawned task exits: child.on('close').
ChildClosed(h, code) ==
  /\ proc = "running"
  /\ handlers[h].pc = "awaitChild"
  /\ Resume(h, IF code = 0 THEN Finish(handlers[h])
               ELSE displayError(handlers[h], "decrypt"),
            SameHistory)

NextDecrypt ==
  \/ \E line \in LinesDecrypt : DecryptLine(line)
  \/ \E h \in DOMAIN handlers : DecCallResolved(h)
  \/ \E h \in DOMAIN handlers : DecResolved(h)
  \/ \E h \in DOMAIN handlers : Rejected(h)
  \/ \E h \in DOMAIN handlers, code \in {0, 1} : ChildClosed(h, code)

SpecDecrypt == InitDecrypt /\ [][NextDecrypt]_vars

(***************************************************************************)
(* SpecTask: the interactive loop of the hardhat repl task.  Its handler   *)
(* keeps currentSignerIndex, history and historyIndex in variables of the  *)
(* enclosing function and reads signers[currentSignerIndex] where it uses  *)
(* it.  A handler has, besides the fields above:                           *)
(*   addr    the signer index read for the pending getAddress()            *)
(*   sender  the signer index the contract was connected to (-1: none)     *)
(*   passed  the arguments the contract method was invoked with            *)
(* and sidx is the signer index at the time the line was accepted.         *)
(***************************************************************************)
TaskFunctionNames == {"increment", "getCount", "peek"}

TaskInterface(name) ==
  IF name = "increment" THEN Fragment(<<P_x, P_inputProof>>, "nonpayable")
  ELSE IF name = "peek" THEN Fragment(<<P_x, P_inputProof>>, "view")
  ELSE Fragment(<< >>, "view")

\* iface.getFunction(functionName)
taskGetFunction(name) ==
  IF name \in TaskFunctionNames THEN TaskInterface(name) ELSE NoFragment

\* The line `signer <n>`.
TaskSigner(n) == Line("word", "signer", InDigits(n))

TaskHandler(line, sig) ==
  [line |-> line, cmd |-> line, pc |-> "start", res |-> "", stage |-> "",
   job |-> NewJob, sidx |-> sig, fx |-> {}, addr |-> sig, sender |-> -1,
   passed |-> << >>]

TaskFuncOf(hd) == taskGetFunction(hd.line.name)
TaskArgsOf(hd) == parseArguments(hd.line.inner)

\* The transaction branch once the preparation loop has ended: the contract
\* is connected to signers[currentSignerIndex] and the method is invoked.
taskSend(hd, j, sig) ==
  [hd EXCEPT !.job = j, !.pc = "awaitTx", !.fx = @ \cup {"send"},
             !.sender = sig, !.passed = j.prepared]

\* The preparation loop stopped at an encrypted parameter, or ended.
taskContinue(hd, j, sig) ==
  IF j.pc = "done" THEN taskSend(hd, j, sig)
  ELSE [hd EXCEPT !.job = j, !.pc = "awaitAddr", !.addr = sig]

\* The listener of the repl task up to its first await.
taskLine(hd, sig) ==
  IF hd.line.shape = "word"
  THEN IF hd.line.name = "signer" /\ hd.line.inner.k = "digits"
       THEN IF hd.line.inner.n >= NumSigners
            THEN [hd |-> displayError(hd, "signer"), sig |-> sig]
            ELSE [hd |-> [hd EXCEPT !.pc = "awaitInfo", !.fx = @ \cup {"signer"}],
                  sig |-> hd.line.inner.n]
       ELSE [hd |-> displayError(hd, "dispatch"), sig |-> sig]
  ELSE LET func == taskGetFunction(hd.line.name)
           args == parseArguments(hd.line.inner)
       IN IF func = NoFragment THEN [hd |-> displayError(hd, "lookup"), sig |-> sig]
          ELSE IF func.stateMutability \in {"view", "pure"}
            THEN [hd |-> [hd EXCEPT !.pc = "awaitCall", !.fx = @ \cup {"call"},
                                    !.passed = args],
                  sig |-> sig]
          ELSE [hd |-> taskContinue(hd, taskPrepare(func.inputs, args, NewJob), sig),
                sig |-> sig]

LinesTask ==
  {Paren("increment", InDigits(5)), Paren("getCount", InEmpty),
   Paren("peek", InDigits(5)), TaskSigner(1), TaskSigner(NumSigners)}

\* rl.on('line') of the repl task.
TaskLineEvent(line) ==
  /\ proc = "running"
  /\ Len(handlers) < MaxLines
  /\ Cardinality({g \in DOMAIN handlers : handlers[g].pc # "done"}) < MaxBusy
  /\ LET u == taskLine(TaskHandler(line, currentSignerIndex), currentSignerIndex)
     IN /\ handlers' = Append(handlers, u.hd)
        /\ currentSignerIndex' = u.sig
        /\ prompts' = Prompted(u.hd)
        /\ UNCHANGED <<proc, isRunning, rlOpen, history, historyIndex, detached,
                       prepVars>>

\* signers[currentSignerIndex].getAddress() resolves: encryptValue is called
\* with the address of the signer that was read.
TaskAddrResolved(h) ==
  /\ proc = "running"
  /\ handlers[h].pc = "awaitAddr"
  /\ LET hd == handlers[h]
         j == taskEncryptCall(TaskFuncOf(hd).inputs, TaskArgsOf(hd), hd.job, hd.addr)
     IN Resume(h, [hd EXCEPT !.job = j, !.pc = "awaitEnc", !.fx = @ \cup {"encrypt"}],
               SameHistory)

\* input.encrypt() resolves: the loop goes on; when it ends the transaction
\* is sent by the signer selected at that moment.
TaskEncResolved(h) ==
  /\ proc = "running"
  /\ handlers[h].pc = "awaitEnc"
  /\ LET hd == handlers[h]
         j == taskEncrypted(TaskFuncOf(hd).inputs, TaskArgsOf(hd), hd.job)
     IN Resume(h, taskContinue(hd, j, currentSignerIndex), SameHistory)

\* tx.wait() resolves: the entry is pushed (the task keeps no status).
TaskReceiptResolved(h) ==
  /\ proc = "running"
  /\ handlers[h].pc = "awaitReceipt"
  /\ LET hd == handlers[h]
     IN Resume(h, Finish([hd EXCEPT !.fx = @ \cup {"history"}]),
               addToHistory(history, historyIndex, Entry(hd.cmd, h, "tx", "")))

NextTask ==
  \/ \E line \in LinesTask : TaskLineEvent(line)
  \/ \E h \in DOMAIN handlers : TaskAddrResolved(h)
  \/ \E h \in DOMAIN handlers : TaskEncResolved(h)
  \/ \E h \in DOMAIN handlers : CallResolved(h)
  \/ \E h \in DOMAIN handlers : TxResolved(h)
  \/ \E h \in DOMAIN handlers : TaskReceiptResolved(h)
  \/ \E h \in DOMAIN handlers : InfoResolved(h)
  \/ \E h \in DOMAIN handlers : Rejected(h)

InitTask ==
  /\ SessInit
  /\ pimpl = "task"
  /\ pfunc = << >>
  /\ pargs = << >>
  /\ pjob = NewJob
  /\ pin = "none"
  /\ pout = "none"

SpecTask == InitTask /\ [][NextTask]_vars

(***************************************************************************)
(* SpecTaskDecrypt: the decrypt command of the hardhat repl task.  The     *)
(* task's contract comes from ethers.getContractAt, which connects it to   *)
(* the first signer, so a method that is not view or pure is sent as a     *)
(* transaction of signer 0.                                                *)
(***************************************************************************)
\* A nested call with an argument list: fn(a, b).
InCallArgs(fn, args) == Inner("call", fn, -1, args)

\* argsStr.split(',') of the nested call
taskDecryptArgs(e) ==
  IF e.args # << >> THEN e.args
  ELSE IF e.n >= 0 THEN <<Num(e.n)>>
  ELSE << >>

\* contract.getFunction(funcName)(...args) on the task's contract: the
\* arguments are encoded against the fragment, then the method is called or
\* sent according to its stateMutability.
taskContractMethod(hd, funcName, args) ==
  LET func == taskGetFunction(funcName)
  IN IF func = NoFragment THEN displayError(hd, "decrypt")
     ELSE IF Len(args) # Len(func.inputs) THEN displayError(hd, "decrypt")
     ELSE IF func.stateMutability \in {"view", "pure"}
       THEN [hd EXCEPT !.pc = "awaitDecCall", !.fx = @ \cup {"call"}, !.passed = args]
     ELSE [hd EXCEPT !.pc = "awaitDecCall", !.fx = @ \cup {"send"}, !.sender = 0,
                     !.passed = args]

\* The listener of the repl task for a line decrypt(...), up to its first
\* await.
taskDecrypt(hd) ==
  LET e == hd.line.inner
  IN IF e.k = "empty" THEN displayError(hd, "dispatch")
     ELSE IF e.k = "call" THEN taskContractMethod(hd, e.fn, taskDecryptArgs(e))
     ELSE [hd EXCEPT !.pc = "awaitDec", !.fx = @ \cup {"decrypt"}]

LinesTaskDecrypt ==
  {Paren("decrypt", InCall("getCount", -1)),
   Paren("decrypt", InCall("increment", 5)),
   Paren("decrypt", InCallArgs("increment", <<[t |-> "hex", v |-> 1], [t |-> "hex", v |-> 2]>>)),
   Paren("decrypt", InCall("nope", -1)),
   Paren("decrypt", InHex(1))}

TaskDecryptLine(line) ==
  /\ proc = "running"
  /\ Len(handlers) < MaxLines
  /\ Cardinality({g \in DOMAIN handlers : handlers[g].pc # "done"}) < MaxBusy
  /\ LET hd == taskDecrypt(TaskHandler(line, currentSignerIndex))
     IN /\ handlers' = Append(handlers, hd)
        /\ prompts' = Prompted(hd)
        /\ UNCHANGED <<proc, isRunning, rlOpen, currentSignerIndex, history,
                       historyIndex, detached, prepVars>>

NextTaskDecrypt ==
  \/ \E line \in LinesTaskDecrypt : TaskDecryptLine(line)
  \/ \E h \in DOMAIN handlers : DecCallResolved(h)
  \/ \E h \in DOMAIN handlers : DecResolved(h)
  \/ \E h \in DOMAIN handlers : Rejected(h)

SpecTaskDecrypt == InitTask /\ [][NextTaskDecrypt]_vars

(***************************************************************************)
(* FHEOperationAnalyzer: the analysis of a transaction receipt.  An        *)
(* operation is represented by its name; a receipt by whether it has a     *)
(* recipient, the number of its logs and its gasUsed.                      *)
(***************************************************************************)
N_fromExternal == <<"F","H","E",".","f","r","o","m","E","x","t","e","r","n","a","l">>
N_TFHE == <<"T","F","H","E",".">>
N_TFHEany == N_TFHE \o <<"*">>
N_TFHEadd == N_TFHE \o <<"a","d","d">>
N_TFHEsub == N_TFHE \o <<"s","u","b">>
N_TFHEmul == N_TFHE \o <<"m","u","l">>
N_allow == <<"F","H","E",".","a","l","l","o","w">>
N_allowThis == N_allow \o <<"T","h","i","s">>

\* String.prototype.includes
Includes(s, p) == \E k \in 1..(Len(s) - Len(p) + 1) : SubSeq(s, k, k + Len(p) - 1) = p

GasInputValidation == 100000
GasComputation == 50000
GasAccessControl == 30000

\* Number(gasUsed): exact for every value below 2^53.
NumberOf(gasUsed) == gasUsed

inferOperationsFromGas_AtLeast(gasUsed) ==
  LET gas == NumberOf(gasUsed)
  IN (IF gas >= GasInputValidation THEN <<N_fromExternal>> ELSE << >>)
       \o (IF gas >= GasComputation THEN <<N_TFHEany>> ELSE << >>)
       \o (IF gas >= GasAccessControl THEN <<N_allowThis, N_allow>> ELSE << >>)

\* FHEOperationAnalyzer.inferOperationsFromGas
inferOperationsFromGas(gasUsed) ==
  LET gas == NumberOf(gasUsed)
  IN (IF gas > GasInputValidation THEN <<N_fromExternal>> ELSE << >>)
       \o (IF gas > GasComputation THEN <<N_TFHEany>> ELSE << >>)
       \o (IF gas > GasAccessControl THEN <<N_allowThis, N_allow>> ELSE << >>)

\* FHEOperationAnalyzer.analyzeFunctionSignature and analyzeEventLogs: both
\* return no operation.
analyzeFunctionSignature == << >>
analyzeEventLogs(logs) == << >>

\* inferPrivacyGuarantees: opNames.some(...) for each guarantee
inputEncrypted(opNames) == \E k \in DOMAIN opNames : opNames[k] = N_fromExternal

stateEncrypted(opNames) ==
  \E k \in DOMAIN opNames :
    \E tfhe \in {N_TFHEadd, N_TFHEsub, N_TFHEmul} : Includes(opNames[k], tfhe)

computationEncrypted(opNames) ==
  \E k \in DOMAIN opNames : StartsWith(opNames[k], N_TFHE)

outputEncrypted(opNames) ==
  \E k \in DOMAIN opNames : opNames[k] \in {N_allow, N_allowThis}

accessControlled(opNames) == \E k \in DOMAIN opNames : opNames[k] = N_allow

inferPrivacyGuarantees_AnyOfThree(operations) ==
  [inputEncrypted |-> inputEncrypted(operations),
   stateEncrypted |-> stateEncrypted(operations),
   computationEncrypted |-> computationEncrypted(operations),
   outputEncrypted |-> outputEncrypted(operations),
   accessControlled |-> accessControlled(operations),
   endToEndPrivacy |-> \/ inputEncrypted(operations)
                       \/ computationEncrypted(operations)
                       \/ outputEncrypted(operations)]

\* FHEOperationAnalyzer.inferPrivacyGuarantees
inferPrivacyGuarantees(operations) ==
  [inputEncrypted |-> inputEncrypted(operations),
   stateEncrypted |-> stateEncrypted(operations),
   computationEncrypted |-> computationEncrypted(operations),
   outputEncrypted |-> outputEncrypted(operations),
   accessControlled |-> accessControlled(operations),
   endToEndPrivacy |-> /\ inputEncrypted(operations)
                       /\ computationEncrypted(operations)
                       /\ outputEncrypted(operations)]

\* FHEOperationAnalyzer.analyzeTransaction
analyzeTransaction(receipt) ==
  LET functionOps == IF receipt.to THEN analyzeFunctionSignature ELSE << >>
      logOps == IF receipt.logs > 0 THEN analyzeEventLogs(receipt.logs) ELSE << >>
      detected == functionOps \o logOps
      operations == IF Len(detected) = 0
                    THEN inferOperationsFromGas(receipt.gasUsed)
                    ELSE detected
  IN [type |-> "analysis",
      operations |-> operations,
      privacyGuarantees |-> inferPrivacyGuarantees(operations),
      gasUsed |-> receipt.gasUsed,
      encryptedTypes |-> {}]

(***************************************************************************)
(* SpecAnalyze: analyzeTransaction applied to a receipt.                   *)
(***************************************************************************)
MaxDelta == 3

\* gasUsed around each threshold, and far from all of them.
GasValues ==
  {0, 20000, 21000, 200000}
    \cup {t + d : t \in {GasInputValidation, GasComputation, GasAccessControl},
                  d \in (0 - MaxDelta)..MaxDelta}

Receipts == [to : BOOLEAN, logs : 0..1, gasUsed : GasValues]

InitAnalyze ==
  /\ pin \in Receipts
  /\ pout = NotApplied
  /\ pimpl = "repl"
  /\ pfunc = << >>
  /\ pargs = << >>
  /\ pjob = NewJob
  /\ SessInit

Analyze ==
  /\ pout = NotApplied
  /\ pout' = analyzeTransaction(pin)
  /\ UNCHANGED <<pin, pimpl, pfunc, pargs, pjob, sessVars>>

NextAnalyze == Analyze

SpecAnalyze == InitAnalyze /\ [][NextAnalyze]_vars

(***************************************************************************)
(* codegen detector: detectFHEVMType and its lookup maps.                  *)
(***************************************************************************)
S_euint8 == S_euint \o <<"8">>
S_euint16 == S_euint \o <<"1","6">>
S_euint64 == S_euint \o <<"6","4">>
S_euint128 == S_euint \o <<"1","2","8">>
S_euint256 == S_euint \o <<"2","5","6">>
S_euint4 == S_euint \o <<"4">>

\* keys of FheTypeNameToId
FheTypeNames ==
  {S_ebool, S_euint8, S_euint16, S_euint32, S_euint64, S_euint128, S_eaddress, S_euint256}

FheTypeNameToId(name) ==
  CASE name = S_ebool -> 0
    [] name = S_euint8 -> 2
    [] name = S_euint16 -> 3
    [] name = S_euint32 -> 4
    [] name = S_euint64 -> 5
    [] name = S_euint128 -> 6
    [] name = S_eaddress -> 7
    [] name = S_euint256 -> 8

FheTypeIdToEncryptionBitwidth(id) ==
  CASE id = 0 -> 2
    [] id = 2 -> 8
    [] id = 3 -> 16
    [] id = 4 -> 32
    [] id = 5 -> 64
    [] id = 6 -> 128
    [] id = 7 -> 160
    [] id = 8 -> 256

\* Property names every object literal inherits from Object.prototype; the
\* `in` operator finds them as well as the object's own keys.
ObjectPrototypeKeys ==
  {<<"c","o","n","s","t","r","u","c","t","o","r">>,
   <<"t","o","S","t","r","i","n","g">>,
   <<"v","a","l","u","e","O","f">>,
   <<"h","a","s","O","w","n","P","r","o","p","e","r","t","y">>,
   <<"i","s","P","r","o","t","o","t","y","p","e","O","f">>,
   <<"p","r","o","p","e","r","t","y","I","s","E","n","u","m","e","r","a","b","l","e">>,
   <<"t","o","L","o","c","a","l","e","S","t","r","i","n","g">>,
   <<"_","_","p","r","o","t","o","_","_">>}

\* An inherited property is a function, not a type id; a lookup keyed by it
\* yields undefined.  -1 stands for both.
NotAnId == -1

UpperCase == <<"A","B","C","D","E","F","G","H","I","J","K","L","M","N","O","P","Q","R","S","T","U","V","W","X","Y","Z">>
LowerCase == <<"a","b","c","d","e","f","g","h","i","j","k","l","m","n","o","p","q","r","s","t","u","v","w","x","y","z">>

\* String.prototype.toLowerCase
ToLowerCase(s) ==
  [k \in DOMAIN s |->
     IF \E i \in DOMAIN UpperCase : UpperCase[i] = s[k]
     THEN LowerCase[CHOOSE i \in DOMAIN UpperCase : UpperCase[i] = s[k]]
     ELSE s[k]]

\* String.prototype.substring(start)
Substring(s, start) == SubSeq(s, start + 1, Len(s))

\* detector: isFheTypeName (value in FheTypeNameToId)
isFheTypeName(value) == value \in FheTypeNames \cup ObjectPrototypeKeys

\* detector: fheTypeIdFromName
fheTypeIdFromName(name) ==
  IF name \in FheTypeNames THEN FheTypeNameToId(name) ELSE NotAnId

\* detector: encryptionBitsFromFheTypeName
encryptionBitsFromFheTypeName(name) ==
  IF name \in FheTypeNames
  THEN FheTypeIdToEncryptionBitwidth(FheTypeNameToId(name))
  ELSE NotAnId

Null == [type |-> "null"]

\* detector: detectFHEVMType
detectFHEVMType(internalType) ==
  IF internalType = S_empty THEN Null
  ELSE LET isExternal == StartsWith(internalType, S_external)
           typeName == IF isExternal
                       THEN ToLowerCase(Substring(internalType, 8))
                       ELSE internalType
       IN IF ~isFheTypeName(typeName) THEN Null
          ELSE [type |-> "FHEVMTypeInfo",
                isEncrypted |-> TRUE,
                isExternal |-> isExternal,
                bits |-> encryptionBitsFromFheTypeName(typeName),
                fhevmTypeName |-> typeName,
                fhevmTypeId |-> fheTypeIdFromName(typeName),
                solType |-> internalType]

\* repl task, decrypt: the return type mapped to the type passed to
\* decryptValue (an absent return type is the empty string)
taskFhevmTypeValue(returnType) ==
  IF returnType = S_empty THEN 4
  ELSE IF returnType = S_ebool THEN 0
  ELSE IF returnType = S_euint4 THEN 1
  ELSE IF returnType = S_euint8 THEN 2
  ELSE IF returnType = S_euint16 THEN 3
  ELSE IF returnType = S_euint32 THEN 4
  ELSE IF returnType = S_euint64 THEN 5
  ELSE IF returnType = S_euint128 THEN 6
  ELSE IF returnType = S_eaddress THEN 7
  ELSE IF returnType = S_euint256 THEN 8
  ELSE 4

\* FHEVMRepl.handleDecrypt: the type passed to EncryptionHelper.decrypt for
\* a function whose declared return type is returnType
handleDecryptType(returnType) == 2

\* EncryptionHelper.decrypt: the provider method a type is decrypted with
\* ("throw" for an unsupported type)
decryptMethod(type) ==
  IF type \in 0..5 THEN "userDecryptEuint"
  ELSE IF type = 6 THEN "userDecryptEbool"
  ELSE IF type = 7 THEN "userDecryptEaddress"
  ELSE "throw"

\* repl task: decryptValue
decryptValue(type) == "userDecryptEuint"

(***************************************************************************)
(* SpecDetect: the detectors applied to one type string of an ABI.         *)
(***************************************************************************)
MaxBrackets == 1

\* externalEuint32 for euint32, ...
ExternalOf(name) == S_external \o <<"E">> \o Tail(name)

S_brackets == <<"[", "]">>

RECURSIVE ArrayOf(_, _)
ArrayOf(base, n) == IF n = 0 THEN base ELSE ArrayOf(base, n - 1) \o S_brackets

SolidityTypes ==
  {<<"u","i","n","t","8">>,
   <<"u","i","n","t","1","6">>,
   <<"u","i","n","t","3","2">>,
   <<"u","i","n","t","6","4">>,
   <<"u","i","n","t","1","2","8">>,
   <<"u","i","n","t","2","5","6">>,
   <<"i","n","t","2","5","6">>,
   <<"b","o","o","l">>,
   <<"a","d","d","r","e","s","s">>,
   <<"b","y","t","e","s">>,
   <<"b","y","t","e","s","3","2">>,
   <<"s","t","r","i","n","g">>}

BaseTypes ==
  FheTypeNames
    \cup {ExternalOf(name) : name \in FheTypeNames}
    \cup {S_external \o name : name \in FheTypeNames}
    \cup {S_euint4, ExternalOf(S_euint4), S_euint, S_externalEuint, S_external,
          S_external \o <<"E","B","O","O","L">>}
    \cup SolidityTypes
    \cup ObjectPrototypeKeys

TypeStrings == {ArrayOf(base, n) : base \in BaseTypes, n \in 0..MaxBrackets}

InitDetect ==
  /\ pin \in TypeStrings
  /\ pout = NotApplied
  /\ pimpl = "repl"
  /\ pfunc = << >>
  /\ pargs = << >>
  /\ pjob = NewJob
  /\ SessInit

Detect ==
  /\ pout = NotApplied
  /\ pout' = [type |-> "detected",
              repl |-> detectEncryptionType(pin),
              task |-> getEncryptionType(pin),
              taskDecrypt |-> taskFhevmTypeValue(pin),
              taskDecryptMethod |-> decryptValue(taskFhevmTypeValue(pin)),
              replDecrypt |-> handleDecryptType(pin),
              replDecryptMethod |-> decryptMethod(handleDecryptType(pin)),
              codegen |-> detectFHEVMType(pin)]
  /\ UNCHANGED <<pin, pimpl, pfunc, pargs, pjob, sessVars>>

NextDetect == Detect

SpecDetect == InitDetect /\ [][NextDetect]_vars

(***************************************************************************)
(* Client-side encryption: EncryptionHelper.encrypt and the repl task's    *)
(* encryptValue.  An integer is [pow, off]: the value 2^pow + off, or off  *)
(* alone when pow = 0, so that values up to 2^256 - 1 are written exactly. *)
(* A JavaScript number is the same record, holding a value a double can    *)
(* hold.                                                                   *)
(***************************************************************************)
Wide(pow, off) == [pow |-> pow, off |-> off]

\* significand width of a double
DoubleBits == 53

\* distance between neighbouring doubles in [2^pow, 2^(pow+1)), for
\* pow >= DoubleBits; beyond 2^30 every offset of the model is below half
\* of it
Ulp(pow) == IF pow - (DoubleBits - 1) > 30 THEN 2^30 ELSE 2^(pow - (DoubleBits - 1))

\* the nearest double, ties to the even significand
NearestDouble(n) ==
  IF n.pow < DoubleBits THEN n
  ELSE LET ulp == Ulp(n.pow)
           q == n.off \div ulp
           r == n.off % ulp
           down == Wide(n.pow, q * ulp)
           up == Wide(n.pow, (q + 1) * ulp)
       IN IF 2 * r < ulp THEN down
          ELSE IF 2 * r > ulp THEN up
          ELSE IF q % 2 = 0 THEN down ELSE up

\* parseInt of a decimal integer literal
parseInt(literal) == NearestDouble(literal)

\* Number(value), BigInt(value), Boolean(value), String(value) of a number
Converted(conv, value) == [conv |-> conv, of |-> value]

S_uint8 == S_uint \o <<"8">>
S_uint16 == S_uint \o <<"1","6">>
S_uint32 == S_uint \o <<"3","2">>
S_uint64 == S_uint \o <<"6","4">>
S_uint128 == S_uint \o <<"1","2","8">>
S_uint4 == S_uint \o <<"4">>
S_string == <<"s","t","r","i","n","g">>

\* the encryption input builder: the add calls made on it, whether encrypt()
\* finalized it, whether the function threw
Builder(adds, finalized, threw) == [adds |-> adds, finalized |-> finalized, threw |-> threw]

Added(method, conv, value) ==
  Builder(<<[method |-> method, value |-> Converted(conv, value)]>>, TRUE, FALSE)

\* EncryptionHelper.encrypt
encrypt(value, type) ==
  CASE type = S_uint8 -> Added("add8", "Number", value)
    [] type = S_uint16 -> Added("add16", "Number", value)
    [] type = S_uint32 -> Added("add32", "Number", value)
    [] type = S_uint64 -> Added("add64", "BigInt", value)
    [] type = S_uint128 -> Added("add128", "BigInt", value)
    [] type = S_uint256 -> Added("add256", "BigInt", value)
    [] type = S_bool -> Added("addBool", "Boolean", value)
    [] type = S_address -> Added("addAddress", "String", value)
    [] OTHER -> Builder(<< >>, FALSE, TRUE)

\* repl task: encryptValue
encryptValue(value, type) ==
  IF Includes(type, <<"3","2">>) THEN Added("add32", "Number", value)
  ELSE IF Includes(type, <<"6","4">>) THEN Added("add64", "BigInt", value)
  ELSE IF Includes(type, <<"1","6">>) THEN Added("add16", "Number", value)
  ELSE IF Includes(type, <<"8">>) THEN Added("add8", "Number", value)
  ELSE IF Includes(type, S_bool) THEN Added("addBool", "Boolean", value)
  ELSE Builder(<< >>, TRUE, FALSE)

(***************************************************************************)
(* SpecEncrypt: an integer literal typed for an encrypted parameter is     *)
(* parsed and encrypted, by the REPL class and by the repl task.           *)
(***************************************************************************)
MaxOffset == 3

WidePowers == {0, 53, 54, 64, 128, 255}

Literals == {Wide(pow, off) : pow \in WidePowers, off \in 0..MaxOffset}

EncryptionTypes ==
  {S_uint8, S_uint16, S_uint32, S_uint64, S_uint128, S_uint256, S_bool, S_address}

TypeTags == EncryptionTypes \cup {S_uint4, S_uint, S_string, S_empty}

InitEncrypt ==
  /\ pin \in [literal : Literals, type : TypeTags]
  /\ pout = NotApplied
  /\ pimpl = "repl"
  /\ pfunc = << >>
  /\ pargs = << >>
  /\ pjob = NewJob
  /\ SessInit

Encrypt ==
  /\ pout = NotApplied
  /\ pout' = [type |-> "encrypted",
              helper |-> encrypt(parseInt(pin.literal), pin.type),
              task |-> encryptValue(parseInt(pin.literal), pin.type)]
  /\ UNCHANGED <<pin, pimpl, pfunc, pargs, pjob, sessVars>>

NextEncrypt == Encrypt

SpecEncrypt == InitEncrypt /\ [][NextEncrypt]_vars

(***************************************************************************)
(* Claims about argument preparation (checked under SpecPrep).             *)
(***************************************************************************)
NeedsEncryption(param) == detectEncryptionType(ParamTypeOf(param)).needsEncryption
IsProofSlot(param) == ParamTypeOf(param) = S_bytes /\ param.name = "inputProof"

\* A proof slot right after an encrypted parameter is filled by the tool.
AutoFilled(func, i) == i > 1 /\ IsProofSlot(func[i]) /\ NeedsEncryption(func[i - 1])
NonAutoFilled(func) == Cardinality({i \in 1..Len(func) : ~AutoFilled(func, i)})

\* Every encrypted parameter is followed by a parameter that is no proof slot.
NoAdjacentProofSlot(func) ==
  \A i \in 1..Len(func) :
    NeedsEncryption(func[i]) => (i < Len(func) /\ ~IsProofSlot(func[i + 1]))

\* C5 (proof adjacency): for inputs [externalEuint32 x, bytes inputProof] and
\* one user argument, preparation returns exactly two call arguments, the
\* handle of the one encryption made and then the proof of that encryption.
C5_ProofAdjacency ==
  (pfunc = <<P_x, P_inputProof>> /\ Len(pargs) = 1 /\ pjob.pc = "done")
    => (Len(pjob.calls) = 1 /\ pjob.prepared = <<Handle(1), Proof(1)>>)

\* C6 (proof never carried over): when the parameter after each encrypted
\* parameter is not bytes inputProof, no proof appears anywhere in the
\* prepared list, and every inputProof slot holds the user argument at the
\* cursor.
C6_ProofNeverCarriedOver ==
  (pjob.pc = "done" /\ NoAdjacentProofSlot(pfunc))
    => /\ \A j \in DOMAIN pjob.prepared : pjob.prepared[j].t # "proof"
       /\ \A i \in 1..Len(pfunc) :
            IsProofSlot(pfunc[i])
              => (i <= Len(pjob.prepared) /\ pjob.prepared[i] = ArgAt(pargs, i - 1))

\* C7 (arity): when the user supplies one token per parameter that is not
\* auto-filled, the prepared list has one element per declared input and the
\* cursor ends at the number of user tokens.
C7_ArityInvariant ==
  (pjob.pc = "done" /\ Len(pargs) = NonAutoFilled(pfunc))
    => (Len(pjob.prepared) = Len(pfunc) /\ pjob.argIndex = Len(pargs))

\* C8 (insufficient arguments): no encryption-provider call is ever made for
\* an encrypted parameter that has no remaining user argument.
C8_InsufficientArguments ==
  /\ \A n \in DOMAIN pjob.calls : pjob.calls[n].val # Undefined
  /\ pjob.pc = "awaitEnc" => pjob.argIndex < Len(pargs)

\* C9 (encrypt-marker semantics): the provider is called for the argument of
\* an encrypted parameter exactly when it is an encrypt(...) marker, with the
\* unwrapped value; an unmarked argument is passed through verbatim.
C9_MarkerSemantics ==
  /\ pjob.pc = "awaitEnc"
       => /\ shouldEncrypt(ArgAt(pargs, pjob.argIndex))
          /\ pjob.calls[Len(pjob.calls)].val = Num(ArgAt(pargs, pjob.argIndex).v)
  /\ (pjob.pc = "done" /\ Len(pfunc) = 1 /\ NeedsEncryption(pfunc[1]) /\ Len(pargs) = 1)
       => /\ shouldEncrypt(pargs[1]) <=> Len(pjob.calls) = 1
          /\ ~shouldEncrypt(pargs[1]) => pjob.prepared = <<pargs[1]>>

\* The repl task's loop alone satisfies C5, C6 and C7.
TaskLoop_C5_C6_C7 ==
  pimpl = "task" => (C5_ProofAdjacency /\ C6_ProofNeverCarriedOver /\ C7_ArityInvariant)

(***************************************************************************)
(* Claims about the session (C3 under SpecSerial, the others under Spec).  *)
(***************************************************************************)
Settled(h) == handlers[h].pc = "done"
ParseOf(h) == parseCommand(handlers[h].line)

\* C1 (single-flight serialization): while the handler of an earlier line has
\* not settled, the handler of a later line has performed no encryption
\* call, contract call, transaction submission, signer change or history
\* append.
C1_SingleFlight ==
  \A g, h \in DOMAIN handlers :
    (g < h /\ ~Settled(g))
      => handlers[h].fx \cap {"encrypt", "call", "send", "signer", "history"} = {}

\* C2 (history ordering): the entries of the history are in the order in
\* which their lines were submitted.
C2_HistoryOrdering ==
  \A i, j \in DOMAIN history : i < j => history[i].h < history[j].h

\* C4 (session survival): the session ends only on exit, quit or an interrupt
\* signal; no failure while handling a line ends the process.
C4_SessionSurvival == proc \in {"running", "exited", "interrupted"}

\* Every line so far is either syntactically invalid or a function call
\* that succeeded, and all have settled.
AllInvalidOrSucceeded ==
  /\ proc = "running"
  /\ \A h \in DOMAIN handlers :
       /\ Settled(h)
       /\ \/ ParseOf(h).type = "error"
          \/ ParseOf(h).type = "function_call" /\ handlers[h].res = "ok"

ValidLines == {h \in DOMAIN handlers : ParseOf(h).type # "error"}

\* C3 (append-only under success, skip on parse failure): after N lines
\* processed one after another from a fresh session, M of them invalid and
\* the others function calls that succeed, the history has N-M entries with
\* index 1..N-M, the k-th entry being that of the k-th valid line.
C3_HistoryAppendOnly ==
  AllInvalidOrSucceeded
    => /\ Len(history) = Len(handlers) - Cardinality(DOMAIN handlers \ ValidLines)
       /\ historyIndex = Len(history) + 1
       /\ \A k \in DOMAIN history :
            /\ history[k].index = k
            /\ history[k].h \in ValidLines
            /\ history[k].command = handlers[history[k].h].line
            /\ Cardinality({g \in ValidLines : g <= history[k].h}) = k

\* Three lines, the second one invalid: two entries, indexed 1 and 2.
C3_Witness ==
  /\ AllInvalidOrSucceeded
  /\ Len(handlers) = 3
  /\ ValidLines = {1, 3}
  /\ Len(history) = 2
  /\ history[2].index = 2

\* A handler of a function-call line that is (after the step) on the error
\* path of C10: its line does not parse, names no function of the contract
\* interface, or its arguments are still being prepared or their
\* preparation has failed.
OnErrorPath(hd) ==
  LET parsed == parseCommand(hd.line)
  IN \/ parsed.type = "error"
     \/ parsed.type = "function_call" /\ parsed.functionName \notin FunctionNames
     \/ parsed.type = "function_call" /\ hd.pc \in {"awaitAddr", "awaitEnc"}
     \/ parsed.type = "function_call" /\ hd.pc = "done" /\ hd.res = "error"
          /\ hd.stage = "prepare"

\* C10 (no side effect on the error path): every step of a handler whose
\* line fails at parsing, at function lookup or in argument preparation
\* leaves the history and the signer index as they were, and the handler
\* invokes no contract method and submits no transaction.
C10_NoSideEffectOnErrorPath ==
  [][\A h \in DOMAIN handlers' :
       (/\ h \notin DOMAIN handlers \/ handlers'[h] # handlers[h]
        /\ OnErrorPath(handlers'[h]))
         => /\ history' = history
            /\ historyIndex' = historyIndex
            /\ currentSignerIndex' = currentSignerIndex
            /\ handlers'[h].fx \cap {"call", "send", "history", "signer"} = {}]_vars

\* An encryption-provider call failed during preparation, in a session that
\* has a history entry and a switched signer.
C10_Witness ==
  \E h \in DOMAIN handlers :
    /\ Settled(h)
    /\ handlers[h].res = "error"
    /\ handlers[h].stage = "prepare"
    /\ "encrypt" \in handlers[h].fx
    /\ Len(history) = 1
    /\ currentSignerIndex = 1

\* C11 (failed transactions are recorded): when the submission of a
\* transaction or the wait for its confirmation rejects, the error is
\* displayed, the handler settles, and the history holds an entry of that
\* command with status Failed.
C11_FailedTransactionRecorded ==
  \A h \in DOMAIN handlers :
    (Settled(h) /\ handlers[h].res = "error" /\ handlers[h].stage = "transaction")
      => \E k \in DOMAIN history : history[k].h = h /\ history[k].status = "Failed"

\* C13 (signer index frame): a command that is not a successful
\* signer(<index>) has not modified the signer index.
C13_SignerIndexFrame ==
  \A h \in DOMAIN handlers :
    (Settled(h) /\ ~(ParseOf(h).type = "signer" /\ handlers[h].res = "ok"))
      => "signer" \notin handlers[h].fx

(***************************************************************************)
(* Claims about the signer and decrypt commands (under SpecCommands).      *)
(***************************************************************************)
SignerOutOfRange(line) ==
  line.shape = "paren" /\ line.name = "signer" /\ line.inner.k = "digits"
    /\ line.inner.n >= NumSigners
SignerNonNumeric(line) ==
  line.shape = "paren" /\ line.name = "signer" /\ line.inner.k \notin {"digits", "empty"}

\* C12 (signer index stays in range): after every step the signer index is
\* one of 0..NumSigners-1; a step of the handler of signer(<n>) with n out of
\* range leaves the index unchanged and ends in an error, and a step of the
\* handler of signer(<non-numeric>) leaves the index unchanged.
C12_SignerIndexInRange ==
  [][/\ currentSignerIndex' \in 0..(NumSigners - 1)
     /\ \A h \in DOMAIN handlers' :
          (h \notin DOMAIN handlers \/ handlers'[h] # handlers[h])
            => /\ SignerOutOfRange(handlers'[h].line)
                    => /\ currentSignerIndex' = currentSignerIndex
                       /\ handlers'[h].res = "error"
               /\ SignerNonNumeric(handlers'[h].line)
                    => currentSignerIndex' = currentSignerIndex]_vars

\* After a switch to signer 1, an out-of-range and a non-numeric signer
\* command were both refused.
C12_Witness ==
  /\ currentSignerIndex = 1
  /\ \E g, h \in DOMAIN handlers :
       /\ Settled(g) /\ SignerOutOfRange(handlers[g].line)
       /\ Settled(h) /\ SignerNonNumeric(handlers[h].line)

\* C15 (standalone decrypt is not a history entry): no history entry belongs
\* to a decrypt command whose expression is a bare handle.
C15_StandaloneDecryptNotRecorded ==
  \A k \in DOMAIN history :
    ~(ParseOf(history[k].h).type = "decrypt"
        /\ ParseOf(history[k].h).expression.k # "call")

(***************************************************************************)
(* Claims about the decrypt command (under SpecDecrypt).                   *)
(***************************************************************************)
\* C17 (bare-handle decrypt): the handler of decrypt(<expr>) with no '(' in
\* the expression passes the expression to the decryption provider as the
\* handle; it calls no contract function and runs no nested command.
C17_BareHandleDecrypt ==
  \A h \in DOMAIN handlers :
    (ParseOf(h).type = "decrypt" /\ ParseOf(h).expression.k = "hex")
      => /\ "decrypt" \in handlers[h].fx
         /\ handlers[h].fx \cap {"call", "spawn"} = {}

\* The class that talks to the contract itself satisfies C17.
ReplDecrypt_C17 == pimpl = "repl" => C17_BareHandleDecrypt

(***************************************************************************)
(* Claims about the signer of a call and about read-only calls (under      *)
(* SpecTask).                                                              *)
(***************************************************************************)
\* C14 (one consistent signer per command): for a state-changing call that
\* has been submitted, the signer given to the encryption provider as the
\* proof subject is the signer that submitted the transaction, and it is the
\* signer that was selected when the call was accepted.
C14_OneSignerPerCommand ==
  \A h \in DOMAIN handlers :
    handlers[h].pc \in {"awaitTx", "awaitReceipt"}
      => /\ handlers[h].sender = handlers[h].sidx
         /\ \A n \in DOMAIN handlers[h].job.calls :
              handlers[h].job.calls[n].user = handlers[h].sender

\* C16 (read-only calls): a view or pure function is invoked with the
\* prepared arguments: what preparation yields when nothing needs
\* encryption, and otherwise the result of an encryption-provider call; the
\* handler submits no transaction and makes no decryption-provider call.
C16_ReadOnlyCalls ==
  \A h \in DOMAIN handlers :
    handlers[h].pc = "awaitCall"
      => LET j == taskPrepare(TaskFuncOf(handlers[h]).inputs,
                              TaskArgsOf(handlers[h]), NewJob)
         IN /\ handlers[h].fx \cap {"send", "decrypt"} = {}
            /\ IF j.pc = "done"
               THEN handlers[h].passed = j.prepared
               ELSE "encrypt" \in handlers[h].fx

(***************************************************************************)
(* Claims about the parser (under SpecParse).                              *)
(***************************************************************************)
\* The text between the parentheses of the line f(<text>).
ArgsTextOf(line) == Trim(SubSeq(line, 3, Len(line) - 1))

\* The quote and depth state before each character is added: position k is
\* a separating comma when it is a comma at depth 0 outside a quoted string.
RECURSIVE StateAfter(_, _)
StateAfter(argsStr, k) ==
  IF k = 0 THEN NewScan ELSE Track(argsStr, k, StateAfter(argsStr, k - 1))

SeparatingCommas(argsStr) ==
  {k \in DOMAIN argsStr :
     /\ argsStr[k] = ","
     /\ StateAfter(argsStr, k).depth = 0
     /\ ~StateAfter(argsStr, k).inString}

\* The text after the last separating comma.
LastSegment(argsStr) ==
  LET c == SeparatingCommas(argsStr)
      last == IF c = {} THEN 0 ELSE CHOOSE x \in c : \A y \in c : y <= x
  IN SubSeq(argsStr, last + 1, Len(argsStr))

\* The arguments of the example line: g(1,2), then a,b, then 3.
ExampleResult ==
  <<[t |-> "str", v |-> <<"g", "(", "1", ",", "2", ")">>],
    [t |-> "str", v |-> <<"a", ",", "b">>],
    [t |-> "num", v |-> <<"3">>]>>

\* C18 as stated (comma-splitting depth-safety): the example line yields its
\* three arguments, and for every argument string the number of arguments
\* is one plus the number of separating commas.
C18_CommaSplitting ==
  pout # NotApplied
    => /\ pout.type = "function_call"
       /\ pin = CallText(ExampleArgs) => pout.args = ExampleResult
       /\ Len(pout.args) = 1 + Cardinality(SeparatingCommas(ArgsTextOf(pin)))

\* C18 amended: the example line yields its three arguments, and for every
\* argument string the number of arguments is the number of separating
\* commas, plus one when the text after the last of them is not blank (a
\* blank argument string yields no argument, a trailing comma adds none).
C18_CommaSplittingAmended ==
  pout # NotApplied
    => /\ pout.type = "function_call"
       /\ pin = CallText(ExampleArgs) => pout.args = ExampleResult
       /\ Len(pout.args) =
            Cardinality(SeparatingCommas(ArgsTextOf(pin)))
              + (IF Trim(LastSegment(ArgsTextOf(pin))) # << >> THEN 1 ELSE 0)

\* The example line has been parsed into three arguments.
C18_Witness ==
  /\ pin = CallText(ExampleArgs)
  /\ pout # NotApplied
  /\ Len(pout.args) = 3

(***************************************************************************)
(* Claims about the analyzer (under SpecAnalyze).                          *)
(***************************************************************************)
NamesOf(operations) == {operations[k] : k \in DOMAIN operations}

\* C19 (additive gas tiers): the analysis of a receipt with gasUsed = g
\* holds the input-validation operation iff g > 100,000, the homomorphic
\* computation iff g > 50,000 and the two grants iff g > 30,000, and nothing
\* else; the operations inferred for a smaller g are among those inferred
\* for a larger g.
C19_AdditiveGasTiers ==
  /\ pout # NotApplied
       => LET names == NamesOf(pout.operations)
              g == pin.gasUsed
          IN /\ N_fromExternal \in names <=> g > 100000
             /\ N_TFHEany \in names <=> g > 50000
             /\ N_allowThis \in names <=> g > 30000
             /\ N_allow \in names <=> g > 30000
             /\ names \subseteq {N_fromExternal, N_TFHEany, N_allowThis, N_allow}
  /\ \A g1, g2 \in GasValues :
       g1 <= g2 => NamesOf(inferOperationsFromGas(g1))
                     \subseteq NamesOf(inferOperationsFromGas(g2))

\* gasUsed equal to the highest threshold: that tier is not inferred, the
\* two lower ones are.
C19_Witness ==
  /\ pout # NotApplied
  /\ pin.gasUsed = 100000
  /\ pout.operations = <<N_TFHEany, N_allowThis, N_allow>>

\* C20 (end-to-end privacy): endToEndPrivacy is true exactly when
\* inputEncrypted, computationEncrypted and outputEncrypted are; a receipt
\* with gasUsed = 20,000 has no inferred operation and no end-to-end privacy.
C20_EndToEndPrivacy ==
  pout # NotApplied
    => LET pg == pout.privacyGuarantees
       IN /\ pg.endToEndPrivacy
               <=> (pg.inputEncrypted /\ pg.computationEncrypted /\ pg.outputEncrypted)
          /\ pin.gasUsed = 20000
               => (pout.operations = << >> /\ ~pg.endToEndPrivacy)

\* Both cases: a receipt with gasUsed = 20,000 was analysed; so was one with
\* only two of the three guarantees.
C20_Witness ==
  /\ pout # NotApplied
  /\ \/ pin.gasUsed = 20000 /\ pout.operations = << >>
     \/ /\ pout.privacyGuarantees.outputEncrypted
        /\ pout.privacyGuarantees.computationEncrypted
        /\ ~pout.privacyGuarantees.inputEncrypted

\* C21 (end-to-end privacy requires encrypted state): in every analysis,
\* stateEncrypted is true whenever the computation tier fired, and
\* endToEndPrivacy is true iff inputEncrypted, stateEncrypted and
\* outputEncrypted are; endToEndPrivacy is never true while stateEncrypted
\* is false.
C21_EndToEndRequiresState ==
  pout # NotApplied
    => LET pg == pout.privacyGuarantees
       IN /\ N_TFHEany \in NamesOf(pout.operations) => pg.stateEncrypted
          /\ pg.endToEndPrivacy
               <=> (pg.inputEncrypted /\ pg.stateEncrypted /\ pg.outputEncrypted)
          /\ pg.endToEndPrivacy => pg.stateEncrypted

(***************************************************************************)
(* Claims about type detection (under SpecDetect).                         *)
(***************************************************************************)
ExternalTypeNames == {ExternalOf(name) : name \in FheTypeNames}

BareNameOf(external) == CHOOSE name \in FheTypeNames : ExternalOf(name) = external

\* C22 (encryption-detection totality): a bare FHE type name is detected
\* with a type id and no client encryption; its external-prefixed form is
\* detected as needing encryption with the same type id and the same
\* underlying type; every other type string is detected as no encryption and
\* no type id (null by the codegen detector).
C22_DetectionTotality ==
  pout # NotApplied
    => /\ pin \in FheTypeNames
            => /\ ~pout.repl.needsEncryption
               /\ pout.repl.fhevmType # NoEncryption.fhevmType
               /\ pout.codegen # Null
               /\ ~pout.codegen.isExternal
               /\ pout.codegen.fhevmTypeId # NotAnId
       /\ pin \in ExternalTypeNames
            => /\ pout.repl.needsEncryption
               /\ pout.repl.fhevmType = detectEncryptionType(BareNameOf(pin)).fhevmType
               /\ pout.repl.encryptionType
                    = detectEncryptionType(BareNameOf(pin)).encryptionType
               /\ pout.codegen # Null
               /\ pout.codegen.isExternal
               /\ pout.codegen.fhevmTypeId = detectFHEVMType(BareNameOf(pin)).fhevmTypeId
               /\ pout.codegen.fhevmTypeName = BareNameOf(pin)
       /\ pin \notin FheTypeNames \cup ExternalTypeNames
            => /\ pout.repl = NoEncryption
               /\ pout.codegen = Null

\* The mapping the components are said to share.
StatedTypeId(name) ==
  CASE name = S_ebool -> 0
    [] name = S_euint8 -> 2
    [] name = S_euint16 -> 3
    [] name = S_euint32 -> 4
    [] name = S_euint64 -> 5
    [] name = S_euint128 -> 6
    [] name = S_eaddress -> 7
    [] name = S_euint256 -> 8

\* C23 (type-id agreement): for every FHE type, bare or external,
\* EncryptionHelper.detectEncryptionType and detectFHEVMType return the same
\* type id, the one of the mapping ebool=0, euint8=2, euint16=3, euint32=4,
\* euint64=5, euint128=6, eaddress=7, euint256=8; externalEuint32 has id 4
\* and id 1 is never produced.
C23_TypeIdAgreement ==
  pout # NotApplied
    => /\ pin \in FheTypeNames \cup ExternalTypeNames
            => LET name == IF pin \in FheTypeNames THEN pin ELSE BareNameOf(pin)
               IN /\ pout.repl.fhevmType = pout.codegen.fhevmTypeId
                  /\ pout.repl.fhevmType = StatedTypeId(name)
                  /\ pout.codegen.fhevmTypeId = StatedTypeId(name)
                  /\ pin \in FheTypeNames => pout.taskDecrypt = StatedTypeId(name)
       /\ pin = S_externalEuint32 => pout.repl.fhevmType = 4
       /\ pout.repl.fhevmType # 1
       /\ pout.codegen # Null => pout.codegen.fhevmTypeId # 1
       /\ pout.taskDecrypt # 1

(***************************************************************************)
(* Claims about client-side encryption (under SpecEncrypt).                *)
(***************************************************************************)
MethodFor(type) ==
  CASE type = S_uint8 -> "add8"
    [] type = S_uint16 -> "add16"
    [] type = S_uint32 -> "add32"
    [] type = S_uint64 -> "add64"
    [] type = S_uint128 -> "add128"
    [] type = S_uint256 -> "add256"
    [] type = S_bool -> "addBool"
    [] type = S_address -> "addAddress"

Dispatched(built, type) ==
  IF type \in EncryptionTypes
  THEN /\ ~built.threw
       /\ built.finalized
       /\ Len(built.adds) = 1
       /\ built.adds[1].method = MethodFor(type)
  ELSE built.threw /\ ~built.finalized

\* C24 (encryption dispatch table): EncryptionHelper.encrypt and the repl
\* task's encryptValue each append exactly one value with the add method of
\* the declared type and finalize once; for a type outside the eight they
\* fail without finalizing.
C24_EncryptionDispatch ==
  pout # NotApplied
    => /\ Dispatched(pout.helper, pin.type)
       /\ Dispatched(pout.task, pin.type)

\* The part of C24 about EncryptionHelper.encrypt alone.
HelperDispatch_C24 == pout # NotApplied => Dispatched(pout.helper, pin.type)

\* C25 (exact wide integers): an integer literal typed for a uint64, uint128
\* or uint256 parameter reaches add64/add128/add256 with exactly the value
\* typed.
C25_ExactWideIntegers ==
  (pout # NotApplied /\ pin.type \in {S_uint64, S_uint128, S_uint256})
    => /\ Len(pout.helper.adds) = 1
       /\ pout.helper.adds[1].value.of = pin.literal
       /\ pin.type = S_uint64
            => (Len(pout.task.adds) = 1 /\ pout.task.adds[1].value.of = pin.literal)

(***************************************************************************)
(* Claims about the commands of the session.                               *)
(***************************************************************************)
\* C26 (advertised commands are executable): no command listed by
\* displayHelp ends in the 'Unknown command type' error of executeCommand.
C26_AdvertisedCommandsExecutable ==
  \A h \in DOMAIN handlers :
    handlers[h].line \in LinesAdvertised
      => ~(handlers[h].res = "error" /\ handlers[h].stage = "dispatch")

IsReplay(hd) == parseCommand(hd.line).type = "replay"

\* The positions of the history entries with index k.
EntriesIndexed(hist, k) == {e \in DOMAIN hist : hist[e].index = k}

\* C27 (replay terminates and re-executes once): replay(k) for an index k
\* present in the history re-executes that entry's command with the selected
\* signer, and on success appends one entry with a fresh index, leaving the
\* others unchanged; for an absent k it reports an error and changes
\* nothing; no entry of the history is a replay command.
C27_ReplayOnce ==
  [][/\ (/\ proc' = "running"
         /\ Len(handlers') = Len(handlers) + 1
         /\ IsReplay(handlers'[Len(handlers')]))
          => LET hd == handlers'[Len(handlers')]
                 found == EntriesIndexed(history, parseCommand(hd.line).index)
             IN /\ history' = history
                /\ historyIndex' = historyIndex
                /\ currentSignerIndex' = currentSignerIndex
                /\ IF found = {}
                   THEN /\ hd.pc = "done"
                        /\ hd.res = "error"
                        /\ hd.stage = "replay"
                        /\ hd.fx = {}
                   ELSE /\ Cardinality(found) = 1
                        /\ \A e \in found : hd.cmd = history[e].command
                        /\ parseCommand(hd.cmd).type = "function_call"
                        /\ hd.pc \in Awaiting
                        /\ hd.sidx = currentSignerIndex
      /\ \A h \in DOMAIN handlers :
           (/\ h \in DOMAIN handlers'
            /\ IsReplay(handlers[h])
            /\ handlers[h].pc # "done"
            /\ handlers'[h].pc = "done"
            /\ handlers'[h].res = "ok")
             => /\ Len(history') = Len(history) + 1
                /\ SubSeq(history', 1, Len(history)) = history
                /\ history'[Len(history')].command = handlers[h].cmd
                /\ history'[Len(history')].h = h
                /\ \A e \in DOMAIN history :
                     history[e].index < history'[Len(history')].index
      /\ \A e \in DOMAIN history' :
           parseCommand(history'[e].command).type # "replay"
    ]_vars

\* replay(1) has re-executed the first entry's command with the signer
\* selected since, and recorded a second entry.
C27_Witness ==
  /\ Len(history) = 2
  /\ currentSignerIndex = 1
  /\ history[2].command = history[1].command
  /\ history[2].index > history[1].index
  /\ history[2].h \in DOMAIN handlers
  /\ handlers[history[2].h].line = Paren("replay", InDigits(1))
  /\ handlers[history[2].h].res = "ok"

StrictlyIncreasing(hist) ==
  \A a, b \in DOMAIN hist : a < b => hist[a].index < hist[b].index

\* C28 (history indices are unique for the whole session): while the session
\* runs, history clear included, historyIndex never goes back, every entry
\* that enters the list carries an index at or above the historyIndex before
\* the step and below the one after it, and the indices of the list are
\* strictly increasing; so no index is assigned twice and none restarts at 1
\* after a clear.
C28_HistoryIndicesUnique ==
  [][proc' = "running"
       => /\ historyIndex' >= historyIndex
          /\ StrictlyIncreasing(history')
          /\ \A e \in DOMAIN history' :
               \/ e \in DOMAIN history /\ history'[e] = history[e]
               \/ /\ history'[e].index >= historyIndex
                  /\ history'[e].index < historyIndex'
          /\ \A k \in 1..historyIndex' : Cardinality(EntriesIndexed(history', k)) <= 1
    ]_vars

\* After a history clear that removed the entry with index 1, the next entry
\* has index 2.
C28_Witness ==
  /\ Len(history) = 1
  /\ history[1].index = 2
  /\ \E h \in DOMAIN handlers :
       handlers[h].line = Word("history clear") /\ handlers[h].pc = "done"

(***************************************************************************)
(* Claims about decrypt.                                                   *)
(***************************************************************************)
\* C29 (decrypt never changes chain state): a decrypt(<expr>) command makes
\* at most a read-only contract call and never submits a transaction, also
\* when the inner expression names a nonpayable function; an inner
\* expression with parentheses that is no call of a contract function is
\* rejected without executing anything.
C29_DecryptNeverChangesChainState ==
  \A h \in DOMAIN handlers :
    handlers[h].line.name = "decrypt"
      => /\ "send" \notin handlers[h].fx
         /\ handlers[h].sender = -1
         /\ (handlers[h].line.inner.k = "call"
               /\ handlers[h].line.inner.fn \notin TaskFunctionNames)
              => handlers[h].fx = {}

\* The same for the FHEVMRepl class, whose contract is connected to a
\* provider only (under SpecCommands and SpecDecrypt).
ReplDecrypt_C29 ==
  \A h \in DOMAIN handlers :
    (handlers[h].line.name = "decrypt" /\ pimpl = "repl")
      => "send" \notin handlers[h].fx

\* The provider method of a declared return type.
MethodOfType(name) ==
  IF name = S_ebool THEN "userDecryptEbool"
  ELSE IF name = S_eaddress THEN "userDecryptEaddress"
  ELSE "userDecryptEuint"

\* C30 (decrypt uses the declared return type): for decrypt(f(...)) with f
\* declared to return the FHE type pin, the type id passed to the decryption
\* provider is the id of that type, in the REPL class (its own numbering)
\* and in the repl task, and the decryption goes through the method of that
\* type: the boolean one for ebool, the address one for eaddress.
C30_DecryptUsesDeclaredType ==
  (pout # NotApplied /\ pin \in FheTypeNames)
    => /\ pout.replDecrypt = pout.repl.fhevmType
       /\ pout.replDecryptMethod = MethodOfType(pin)
       /\ pout.taskDecrypt = pout.codegen.fhevmTypeId
       /\ pout.taskDecryptMethod = MethodOfType(pin)

====
